---- MODULE Spec2Model ----
(***************************************************************************)
(* The GPX 1.1 streaming decoder (Decoder.Decode and its consume*          *)
(* functions), the tokenStream primitives it is built on (consumeString,   *)
(* consumeFloat, consumeTime, skipTag) and the Garmin TrackPoint extension *)
(* parser that replays a captured token buffer through a sliceTokener.     *)
(*                                                                         *)
(* One step of the model is one iteration of the loop of the function on   *)
(* top of the call stack: the Token() call that opens the iteration, and   *)
(* everything the code does with the token up to the next Token() call or  *)
(* the return of the top-level call.                                       *)
(***************************************************************************)
EXTENDS Integers, Sequences, FiniteSets, TLC

VARIABLES
    rev,        \* the revision of the leaf readers in use: "final" or "earlier"
    decoders,   \* Decoder values: [Strict, r, ts]
    streams,    \* token sources created so far: [kind, toks, pos, flaky, srcErr, nerr]
    calls       \* top-level calls: [op, d, arg, buf, wait, sid, stack, status,
                \* doc, ext, err]; wait: the call is made after the earlier
                \* ones have returned, not beside them; buf: the array the
                \* slice arg lies in (0: an array no other call is given)

vars == <<rev, decoders, streams, calls>>

(***************************************************************************)
(* Program constants.                                                      *)
(***************************************************************************)
nsGPX11 == "http://www.topografix.com/GPX/1/1"
GarminTrackPointExtensionNS == "http://www.garmin.com/xmlschemas/TrackPointExtension/v1"

NoErr == "nil"
ErrBadRootTag == "gpx: root element must be <gpx>"
ErrGPX11Only == "gpx: can only parse GPX 1.1 documents"
ErrNoSuchExtension == "gpx: no such extension"
ErrUnexpectedElement == "gpx: unexpected element while reading string"
ErrInvalidLat == "gpx: invalid <trkpt> lat"
ErrInvalidLon == "gpx: invalid <trkpt> lon"
ErrInvalidEle == "gpx: invalid <ele>"
ErrInvalidTime == "gpx: invalid <time>"
ErrParseFloat == "strconv.ParseFloat: invalid syntax"
ErrParseTime == "time.Parse: cannot parse"
EOF == "EOF"
\* an error of the reader under the xml.Decoder, other than the end of input
ErrIO == "read error"
\* a run-time panic (index out of range) ends the call without a result
Panic == "panic: runtime error: index out of range"

(***************************************************************************)
(* xml.Token values.  A text is a sequence of one-character strings, so    *)
(* that concatenating and parsing texts are computed, not assumed.         *)
(***************************************************************************)
StartElement(space, local, attr) ==
    [k |-> "start", space |-> space, local |-> local, attr |-> attr, s |-> <<>>]
EndElement(space, local) ==
    [k |-> "end", space |-> space, local |-> local, attr |-> <<>>, s |-> <<>>]
CharData(s) ==
    [k |-> "text", space |-> "", local |-> "", attr |-> <<>>, s |-> s]
Comment ==
    [k |-> "comment", space |-> "", local |-> "", attr |-> <<>>, s |-> <<>>]
\* the nil interface value (a nil element of a []xml.Token)
NilToken ==
    [k |-> "nil", space |-> "", local |-> "", attr |-> <<>>, s |-> <<>>]
Attr(name, value) == [name |-> name, value |-> value]

(***************************************************************************)
(* strconv.ParseFloat, strconv.Atoi and time.Parse on texts over the       *)
(* characters 0-9, "-", "Z" and "x".  Over these characters ParseFloat and *)
(* Atoi accept exactly an optional "-" followed by one or more digits.     *)
(* time.Parse is modelled on a one-field layout: one or more digits        *)
(* followed by "Z" denote the instant of that number; the zero time.Time   *)
(* is instant 0.                                                           *)
(***************************************************************************)
Digits == <<"0", "1", "2", "3", "4", "5", "6", "7", "8", "9">>
IsDigit(ch) == \E i \in 1..10 : Digits[i] = ch
DigitVal(ch) == (CHOOSE i \in 1..10 : Digits[i] = ch) - 1

RECURSIVE DecimalVal(_)
DecimalVal(s) ==
    IF s = <<>> THEN 0
    ELSE 10 * DecimalVal(SubSeq(s, 1, Len(s) - 1)) + DigitVal(s[Len(s)])

AllDigits(s) == Len(s) > 0 /\ \A i \in 1..Len(s) : IsDigit(s[i])

ParseInt(s) ==
    IF AllDigits(s) THEN [ok |-> TRUE, val |-> DecimalVal(s)]
    ELSE IF Len(s) > 1 /\ s[1] = "-" /\ AllDigits(Tail(s))
         THEN [ok |-> TRUE, val |-> 0 - DecimalVal(Tail(s))]
    ELSE [ok |-> FALSE, val |-> 0]

ParseFloat(s) == ParseInt(s)
Atoi(s) == ParseInt(s)

\* the conversion uint(n) of an int: the value carry * 2^w + low, where w
\* is the width of uint; a negative n wraps around
uint(n) == [carry |-> IF n < 0 THEN 1 ELSE 0, low |-> n]

ZeroTime == 0
ParseTime(s) ==
    IF Len(s) > 1 /\ s[Len(s)] = "Z" /\ AllDigits(SubSeq(s, 1, Len(s) - 1))
    THEN [ok |-> TRUE, val |-> DecimalVal(SubSeq(s, 1, Len(s) - 1))]
    ELSE [ok |-> FALSE, val |-> ZeroTime]

(***************************************************************************)
(* The document model (zero values).                                       *)
(***************************************************************************)
ZeroMetadata == [Time |-> ZeroTime]
ZeroDocument == [Version |-> "", Metadata |-> ZeroMetadata, Tracks |-> <<>>]
ZeroTrack == [Segments |-> <<>>]
ZeroSegment == [Points |-> <<>>]
ZeroPoint ==
    [Latitude |-> 0, Longitude |-> 0, Elevation |-> 0, Time |-> ZeroTime,
     Extensions |-> <<>>]
ZeroExtension ==
    [ATemp |-> 0, WTemp |-> 0, Depth |-> 0, HeartRate |-> uint(0),
     Cadence |-> uint(0)]

(***************************************************************************)
(* Token sources.  An xml.Decoder over a reader delivers the reader's      *)
(* tokens in order and then the end-of-input error; a reader marked flaky  *)
(* may fail instead at any call.  The error is sticky.  A sliceTokener     *)
(* indexes element 0 of its slice without a length check.                  *)
(***************************************************************************)
xmlToken(st) ==
    IF st.srcErr # NoErr
    THEN {[tok |-> NilToken, err |-> st.srcErr, pos |-> st.pos]}
    ELSE IF st.pos < Len(st.toks)
    THEN {[tok |-> st.toks[st.pos + 1], err |-> NoErr, pos |-> st.pos + 1]}
         \cup (IF st.flaky
               THEN {[tok |-> NilToken, err |-> ErrIO, pos |-> st.pos]}
               ELSE {})
    ELSE {[tok |-> NilToken, err |-> EOF, pos |-> st.pos]}

sliceToken(st) ==
    IF st.pos >= Len(st.toks)
    THEN {[tok |-> NilToken, err |-> Panic, pos |-> st.pos]}
    ELSE IF st.toks[st.pos + 1] = NilToken
    THEN {[tok |-> NilToken, err |-> EOF, pos |-> st.pos]}
    ELSE {[tok |-> st.toks[st.pos + 1], err |-> NoErr, pos |-> st.pos + 1]}

Token(st) == IF st.kind = "xml" THEN xmlToken(st) ELSE sliceToken(st)

NewStream(kind, toks, flaky) ==
    [kind |-> kind, toks |-> toks, pos |-> 0, flaky |-> flaky,
     srcErr |-> NoErr, nerr |-> 0]

\* a source that delivers a comment without moving past it
PulledStuck(st, r) ==
    [st EXCEPT !.pos = IF r.err = NoErr /\ r.tok.k = "comment" THEN @ ELSE r.pos,
               !.srcErr = IF r.err \notin {NoErr, Panic} /\ st.kind = "xml"
                          THEN r.err ELSE @,
               !.nerr = IF r.err # NoErr THEN @ + 1 ELSE @]

\* a sliceTokener that sets the element it has delivered to nil
PulledClearing(st, r) ==
    [st EXCEPT !.pos = r.pos,
               !.toks = IF st.kind = "slice" /\ r.err = NoErr
                        THEN [@ EXCEPT ![r.pos] = NilToken] ELSE @,
               !.srcErr = IF r.err \notin {NoErr, Panic} /\ st.kind = "xml"
                          THEN r.err ELSE @,
               !.nerr = IF r.err # NoErr THEN @ + 1 ELSE @]

\* the source after a Token call; a sliceTokener moves its own slice
\* header (t.tokens = t.tokens[1:]) over the array it shares with its maker
Pulled(st, r) ==
    [st EXCEPT !.pos = r.pos,
               !.srcErr = IF r.err \notin {NoErr, Panic} /\ st.kind = "xml"
                          THEN r.err ELSE @,
               !.nerr = IF r.err # NoErr THEN @ + 1 ELSE @]

(***************************************************************************)
(* What each function does with one token or one start tag.                *)
(***************************************************************************)
\* findGPX with the two checks in the other order
rootCheckSpaceFirst(se) ==
    IF se.space # nsGPX11 THEN ErrGPX11Only
    ELSE IF se.local # "gpx" THEN ErrBadRootTag
    ELSE NoErr

\* findGPX without the namespace check
rootCheckAnySpace(se) ==
    IF se.local # "gpx" THEN ErrBadRootTag ELSE NoErr

\* findGPX: the checks on the first start tag
rootCheck(se) ==
    IF se.local # "gpx" THEN ErrBadRootTag
    ELSE IF se.space # nsGPX11 THEN ErrGPX11Only
    ELSE NoErr

\* an attribute loop that keeps the version of a GPX 1.1 document only
RECURSIVE gpxAttrsChecked(_, _)
gpxAttrsChecked(attr, doc) ==
    IF attr = <<>> THEN doc
    ELSE gpxAttrsChecked(Tail(attr),
                         IF Head(attr).name = "version" /\ Head(attr).value = "1.1"
                         THEN [doc EXCEPT !.Version = Head(attr).value]
                         ELSE doc)

\* consumeGPX: the attribute loop
RECURSIVE gpxAttrs(_, _)
gpxAttrs(attr, doc) ==
    IF attr = <<>> THEN doc
    ELSE gpxAttrs(Tail(attr),
                  IF Head(attr).name = "version"
                  THEN [doc EXCEPT !.Version = Head(attr).value]
                  ELSE doc)

\* consumePoint's attribute loop, left at the first coordinate that does
\* not parse when the decoder is not strict
RECURSIVE pointAttrsBreak(_, _, _)
pointAttrsBreak(attr, point, strict) ==
    IF attr = <<>> THEN [point |-> point, err |-> NoErr]
    ELSE LET a == Head(attr)
             f == ParseFloat(a.value)
         IN  IF a.name = "lat"
             THEN IF f.ok
                  THEN pointAttrsBreak(Tail(attr), [point EXCEPT !.Latitude = f.val],
                                       strict)
                  ELSE [point |-> point, err |-> IF strict THEN ErrInvalidLat ELSE NoErr]
             ELSE IF a.name = "lon"
             THEN IF f.ok
                  THEN pointAttrsBreak(Tail(attr), [point EXCEPT !.Longitude = f.val],
                                       strict)
                  ELSE [point |-> point, err |-> IF strict THEN ErrInvalidLon ELSE NoErr]
             ELSE pointAttrsBreak(Tail(attr), point, strict)

\* consumePoint: the attribute loop
RECURSIVE pointAttrs(_, _, _)
pointAttrs(attr, point, strict) ==
    IF attr = <<>> THEN [point |-> point, err |-> NoErr]
    ELSE LET a == Head(attr)
             f == ParseFloat(a.value)
         IN  IF a.name = "lat"
             THEN IF f.ok
                  THEN pointAttrs(Tail(attr), [point EXCEPT !.Latitude = f.val], strict)
                  ELSE IF strict THEN [point |-> point, err |-> ErrInvalidLat]
                  ELSE pointAttrs(Tail(attr), point, strict)
             ELSE IF a.name = "lon"
             THEN IF f.ok
                  THEN pointAttrs(Tail(attr), [point EXCEPT !.Longitude = f.val], strict)
                  ELSE IF strict THEN [point |-> point, err |-> ErrInvalidLon]
                  ELSE pointAttrs(Tail(attr), point, strict)
             ELSE pointAttrs(Tail(attr), point, strict)

\* a root level that reads a trkseg child as it reads a trk child
gpxChildLoose(se) ==
    IF se.local \in {"trk", "trkseg"} THEN "consumeTrack"
    ELSE IF se.local = "metadata" THEN "consumeMetadata"
    ELSE "skipTag"

\* the name switch of each level: the function called for a child start tag
gpxChild(se) ==
    IF se.local = "trk" THEN "consumeTrack"
    ELSE IF se.local = "metadata" THEN "consumeMetadata"
    ELSE "skipTag"

metadataChild(se) == IF se.local = "time" THEN "consumeTime" ELSE "skipTag"

trackChild(se) == IF se.local = "trkseg" THEN "consumeSegment" ELSE "skipTag"

segmentChild(se) == IF se.local = "trkpt" THEN "consumePoint" ELSE "skipTag"

pointChild(se) ==
    IF se.local = "ele" THEN "consumeFloat"
    ELSE IF se.local = "time" THEN "consumeTime"
    ELSE IF se.local = "extensions" THEN "consumeExtensions"
    ELSE "skipTag"

\* skipTag returning at the first end tag, whatever the nesting
skipTagFlat(lvl, tok) ==
    IF tok.k = "start" THEN [ret |-> FALSE, lvl |-> lvl + 1]
    ELSE IF tok.k = "end" THEN [ret |-> TRUE, lvl |-> lvl]
    ELSE [ret |-> FALSE, lvl |-> lvl]

\* skipTag returning at the end tag after the one met with the counter at 0
skipTagLate(lvl, tok) ==
    IF tok.k = "start" THEN [ret |-> FALSE, lvl |-> lvl + 1]
    ELSE IF tok.k = "end"
    THEN IF lvl < 0 THEN [ret |-> TRUE, lvl |-> lvl]
         ELSE [ret |-> FALSE, lvl |-> lvl - 1]
    ELSE [ret |-> FALSE, lvl |-> lvl]

\* tokenStream.skipTag: one token against the nesting counter
skipTagOn(lvl, tok) ==
    IF tok.k = "start" THEN [ret |-> FALSE, lvl |-> lvl + 1]
    ELSE IF tok.k = "end"
    THEN IF lvl = 0 THEN [ret |-> TRUE, lvl |-> lvl]
         ELSE [ret |-> FALSE, lvl |-> lvl - 1]
    ELSE [ret |-> FALSE, lvl |-> lvl]

\* consumeString reading on over a start tag inside the element
consumeStringOver(s, tok) ==
    IF tok.k = "text" THEN [ret |-> FALSE, s |-> s \o tok.s, err |-> NoErr]
    ELSE IF tok.k = "end" THEN [ret |-> TRUE, s |-> s, err |-> NoErr]
    ELSE IF tok.k = "start" THEN [ret |-> FALSE, s |-> s, err |-> NoErr]
    ELSE [ret |-> TRUE, s |-> <<>>, err |-> ErrUnexpectedElement]

\* tokenStream.consumeString: one token against the accumulated string
consumeStringOn(s, tok) ==
    IF tok.k = "text" THEN [ret |-> FALSE, s |-> s \o tok.s, err |-> NoErr]
    ELSE IF tok.k = "end" THEN [ret |-> TRUE, s |-> s, err |-> NoErr]
    ELSE [ret |-> TRUE, s |-> <<>>, err |-> ErrUnexpectedElement]

\* tokenStream.consumeFloat / consumeTime: the parse of the string read
consumeFloat(s) ==
    LET f == ParseFloat(s)
    IN  [val |-> f.val, err |-> IF f.ok THEN NoErr ELSE ErrParseFloat]
consumeTime(s) ==
    LET t == ParseTime(s)
    IN  [val |-> t.val, err |-> IF t.ok THEN NoErr ELSE ErrParseTime]

\* findExtension reading on into an element of another name
findExtensionInto(tok, space, local) ==
    IF tok.k = "start"
    THEN IF tok.space = space /\ tok.local = local THEN "true" ELSE "next"
    ELSE IF tok.k = "end" THEN "false"
    ELSE "next"

\* findExtension: one token against the wanted name
findExtensionOn(tok, space, local) ==
    IF tok.k = "start"
    THEN IF tok.space = space /\ tok.local = local THEN "true" ELSE "skipTag"
    ELSE IF tok.k = "end" THEN "false"
    ELSE "next"

\* a name switch without the namespace test
extensionChildAnySpace(se) ==
    IF se.local \in {"hr", "cad", "atemp", "wtemp", "depth"} THEN "consumeString"
    ELSE "skipTag"

\* ParseGarminTrackPointExtension: the namespace test and the name switch
ExtensionFields == {"hr", "cad", "atemp", "wtemp", "depth"}
extensionChild(se) ==
    IF se.space # GarminTrackPointExtensionNS THEN "skipTag"
    ELSE IF se.local \in ExtensionFields THEN "consumeString"
    ELSE "skipTag"

\* ParseGarminTrackPointExtension: the value of a field from its string,
\* the conversion's error dropped
extensionFieldStrict(name, s) ==
    IF name \in {"hr", "cad"}
    THEN [val |-> uint(Atoi(s).val),
          err |-> IF Atoi(s).ok THEN NoErr ELSE ErrParseFloat]
    ELSE [val |-> ParseFloat(s).val,
          err |-> IF ParseFloat(s).ok THEN NoErr ELSE ErrParseFloat]

extensionField(name, s) ==
    IF name \in {"hr", "cad"} THEN [val |-> uint(Atoi(s).val), err |-> NoErr]
    ELSE [val |-> ParseFloat(s).val, err |-> NoErr]

\* consumeExtensions returning at the first end tag, whatever the nesting
consumeExtensionsFlat(lvl, tokens, tok) ==
    IF tok.k = "end"
    THEN [ret |-> TRUE, lvl |-> lvl, tokens |-> tokens]
    ELSE [ret |-> FALSE,
          lvl |-> IF tok.k = "start" THEN lvl + 1 ELSE lvl,
          tokens |-> Append(tokens, tok)]

\* Decoder.consumeExtensions: one token against the counter and the buffer
consumeExtensionsOn(lvl, tokens, tok) ==
    IF tok.k = "end" /\ lvl = 0
    THEN [ret |-> TRUE, lvl |-> lvl, tokens |-> tokens]
    ELSE [ret |-> FALSE,
          lvl |-> IF tok.k = "start" THEN lvl + 1
                  ELSE IF tok.k = "end" THEN lvl - 1 ELSE lvl,
          tokens |-> Append(tokens, tok)]

\* Decoder.consumeEle keeping on after a text that is no number, strict or not
consumeEleOnLenient(ele, tok, strict) ==
    IF tok.k = "text"
    THEN [ret |-> FALSE, val |-> ParseFloat(tok.s).val, err |-> NoErr]
    ELSE IF tok.k = "start" THEN [ret |-> TRUE, val |-> ele, err |-> ErrInvalidEle]
    ELSE IF tok.k = "end" THEN [ret |-> TRUE, val |-> ele, err |-> NoErr]
    ELSE [ret |-> FALSE, val |-> ele, err |-> NoErr]

\* Decoder.consumeEle / Decoder.consumeTime of the earlier revision: one
\* token against the value read so far
consumeEleOn(ele, tok, strict) ==
    IF tok.k = "text"
    THEN LET f == ParseFloat(tok.s)
         IN  IF ~f.ok /\ strict
             THEN [ret |-> TRUE, val |-> f.val, err |-> ErrInvalidEle]
             ELSE [ret |-> FALSE, val |-> f.val, err |-> NoErr]
    ELSE IF tok.k = "start" THEN [ret |-> TRUE, val |-> ele, err |-> ErrInvalidEle]
    ELSE IF tok.k = "end" THEN [ret |-> TRUE, val |-> ele, err |-> NoErr]
    ELSE [ret |-> FALSE, val |-> ele, err |-> NoErr]

consumeTimeOn(t, tok, strict) ==
    IF tok.k = "text"
    THEN LET p == ParseTime(tok.s)
         IN  IF ~p.ok /\ strict
             THEN [ret |-> TRUE, val |-> p.val, err |-> ErrInvalidTime]
             ELSE [ret |-> FALSE, val |-> p.val, err |-> NoErr]
    ELSE IF tok.k = "start" THEN [ret |-> TRUE, val |-> t, err |-> ErrInvalidTime]
    ELSE IF tok.k = "end" THEN [ret |-> TRUE, val |-> t, err |-> NoErr]
    ELSE [ret |-> FALSE, val |-> t, err |-> NoErr]

(***************************************************************************)
(* The call stack.  A frame is the activation of one function: fn its      *)
(* name, val the value it is building (doc, track, seg, point, tokens, s), *)
(* lvl its nesting counter, via the tokenStream wrapper (consumeFloat or   *)
(* consumeTime) a leaf reader was called through.                          *)
(***************************************************************************)
Frame(fn, val, lvl, via) == [fn |-> fn, val |-> val, lvl |-> lvl, via |-> via]

Top(call) == call.stack[Len(call.stack)]

SetTop(call, frame) ==
    [call EXCEPT !.stack = SubSeq(@, 1, Len(@) - 1) \o <<frame>>]

Push(call, frame) == [call EXCEPT !.stack = Append(@, frame)]

\* the Document Decode returns beside an error: findGPX's failure returns
\* Decode's own zero doc, a later failure returns what consumeGPX returns
failedDoc(stack) ==
    IF stack # <<>> /\ stack[1].fn = "consumeGPX" THEN stack[1].val
    ELSE ZeroDocument

\* the extension ParseGarminTrackPointExtension returns beside an error;
\* a panic returns nothing
failedExt(stack, err) ==
    IF err # Panic /\ stack # <<>> /\ stack[1].fn = "TrackPointExtension"
    THEN stack[1].val
    ELSE ZeroExtension

\* an error return that wraps the error of the token source
ErrWrapped == "gpx: read failed"
FailWrapped(call, err) ==
    [call EXCEPT !.stack = <<>>, !.status = "done",
                 !.err = IF err \in {EOF, ErrIO} THEN ErrWrapped ELSE err,
                 !.doc = failedDoc(call.stack),
                 !.ext = failedExt(call.stack, err)]

\* an error return: every caller returns it at once, up to the call; a
\* panic unwinds the same way
Fail(call, err) ==
    [call EXCEPT !.stack = <<>>, !.status = "done", !.err = err,
                 !.doc = failedDoc(call.stack),
                 !.ext = failedExt(call.stack, err)]

\* the callers that drop the error skipTag returns
DropsSkipError(fn) == fn \in {"findExtension", "TrackPointExtension"}

\* the callers with a point put in front of its segment's earlier points
DeliverInFront(caller, callee, v) ==
    IF callee.fn = "consumeTrack"
    THEN [caller EXCEPT !.val.Tracks = Append(@, v)]
    ELSE IF callee.fn = "consumeMetadata"
    THEN [caller EXCEPT !.val.Metadata = v]
    ELSE IF callee.fn = "consumeSegment"
    THEN [caller EXCEPT !.val.Segments = Append(@, v)]
    ELSE IF callee.fn = "consumePoint"
    THEN [caller EXCEPT !.val.Points = <<v>> \o @]
    ELSE IF callee.fn = "consumeExtensions"
    THEN [caller EXCEPT !.val.Extensions = v]
    ELSE IF callee.via = "consumeFloat"
    THEN [caller EXCEPT !.val.Elevation = v]
    ELSE IF callee.via = "consumeTime"
    THEN [caller EXCEPT !.val.Time = v]
    ELSE IF callee.via = "hr"
    THEN [caller EXCEPT !.val.HeartRate = v]
    ELSE IF callee.via = "cad"
    THEN [caller EXCEPT !.val.Cadence = v]
    ELSE IF callee.via = "atemp"
    THEN [caller EXCEPT !.val.ATemp = v]
    ELSE IF callee.via = "wtemp"
    THEN [caller EXCEPT !.val.WTemp = v]
    ELSE IF callee.via = "depth"
    THEN [caller EXCEPT !.val.Depth = v]
    ELSE caller

\* callers that merge a repeated child into what they hold: a metadata
\* without a time keeps the earlier time, extensions are added to the buffer
DeliverMerging(caller, callee, v) ==
    IF callee.fn = "consumeTrack"
    THEN [caller EXCEPT !.val.Tracks = Append(@, v)]
    ELSE IF callee.fn = "consumeMetadata"
    THEN [caller EXCEPT !.val.Metadata = IF v.Time = ZeroTime THEN @ ELSE v]
    ELSE IF callee.fn = "consumeSegment"
    THEN [caller EXCEPT !.val.Segments = Append(@, v)]
    ELSE IF callee.fn = "consumePoint"
    THEN [caller EXCEPT !.val.Points = Append(@, v)]
    ELSE IF callee.fn = "consumeExtensions"
    THEN [caller EXCEPT !.val.Extensions = @ \o v]
    ELSE IF callee.via = "consumeFloat"
    THEN [caller EXCEPT !.val.Elevation = v]
    ELSE IF callee.via = "consumeTime"
    THEN [caller EXCEPT !.val.Time = v]
    ELSE IF callee.via = "hr"
    THEN [caller EXCEPT !.val.HeartRate = v]
    ELSE IF callee.via = "cad"
    THEN [caller EXCEPT !.val.Cadence = v]
    ELSE IF callee.via = "atemp"
    THEN [caller EXCEPT !.val.ATemp = v]
    ELSE IF callee.via = "wtemp"
    THEN [caller EXCEPT !.val.WTemp = v]
    ELSE IF callee.via = "depth"
    THEN [caller EXCEPT !.val.Depth = v]
    ELSE caller

\* what a caller does with the value its callee returned without error
Deliver(caller, callee, v) ==
    IF callee.fn = "consumeTrack"
    THEN [caller EXCEPT !.val.Tracks = Append(@, v)]
    ELSE IF callee.fn = "consumeMetadata"
    THEN [caller EXCEPT !.val.Metadata = v]
    ELSE IF callee.fn = "consumeSegment"
    THEN [caller EXCEPT !.val.Segments = Append(@, v)]
    ELSE IF callee.fn = "consumePoint"
    THEN [caller EXCEPT !.val.Points = Append(@, v)]
    ELSE IF callee.fn = "consumeExtensions"
    THEN [caller EXCEPT !.val.Extensions = v]
    ELSE IF callee.via = "consumeFloat"
    THEN [caller EXCEPT !.val.Elevation = v]
    ELSE IF callee.via = "consumeTime"
    THEN [caller EXCEPT !.val.Time = v]
    ELSE IF callee.via = "hr"
    THEN [caller EXCEPT !.val.HeartRate = v]
    ELSE IF callee.via = "cad"
    THEN [caller EXCEPT !.val.Cadence = v]
    ELSE IF callee.via = "atemp"
    THEN [caller EXCEPT !.val.ATemp = v]
    ELSE IF callee.via = "wtemp"
    THEN [caller EXCEPT !.val.WTemp = v]
    ELSE IF callee.via = "depth"
    THEN [caller EXCEPT !.val.Depth = v]
    ELSE caller

\* a return without error of the function on top of the stack
\* a return that ends the decode when the first track has been read
ReturnAtTrack(call, v) ==
    LET n == Len(call.stack)
    IN  IF n = 1
        THEN [call EXCEPT !.stack = <<>>, !.status = "done", !.err = NoErr,
                          !.doc = v]
        ELSE IF call.stack[n].fn = "consumeTrack"
        THEN [call EXCEPT !.stack = <<>>, !.status = "done", !.err = NoErr,
                          !.doc = Deliver(call.stack[n - 1], call.stack[n], v).val]
        ELSE [call EXCEPT !.stack = SubSeq(@, 1, n - 2)
                                    \o <<Deliver(@[n - 1], @[n], v)>>]

Return(call, v) ==
    LET n == Len(call.stack)
    IN  IF n = 1
        THEN [call EXCEPT !.stack = <<>>, !.status = "done", !.err = NoErr,
                          !.doc = v]
        ELSE [call EXCEPT !.stack = SubSeq(@, 1, n - 2)
                                    \o <<Deliver(@[n - 1], @[n], v)>>]

\* the call of the function a level's name switch chose for start tag se
Enter(call, fn, se, strict, rv) ==
    IF fn = "consumeTrack" THEN Push(call, Frame(fn, ZeroTrack, 0, ""))
    ELSE IF fn = "consumeMetadata" THEN Push(call, Frame(fn, ZeroMetadata, 0, ""))
    ELSE IF fn = "consumeSegment" THEN Push(call, Frame(fn, ZeroSegment, 0, ""))
    ELSE IF fn = "consumePoint"
    THEN LET a == pointAttrs(se.attr, ZeroPoint, strict)
         IN  IF a.err # NoErr THEN Fail(call, a.err)
             ELSE Push(call, Frame(fn, a.point, 0, ""))
    ELSE IF fn = "consumeExtensions" THEN Push(call, Frame(fn, <<>>, 0, ""))
    ELSE IF fn = "consumeFloat"
    THEN IF rv = "final" THEN Push(call, Frame("consumeString", <<>>, 0, fn))
         ELSE Push(call, Frame("consumeEle", 0, 0, fn))
    ELSE IF fn = "consumeTime"
    THEN IF rv = "final" THEN Push(call, Frame("consumeString", <<>>, 0, fn))
         ELSE Push(call, Frame("Decoder.consumeTime", ZeroTime, 0, fn))
    ELSE Push(call, Frame("skipTag", 0, 0, ""))

(***************************************************************************)
(* The steps of a Decode call.                                             *)
(***************************************************************************)
CallIds == {1, 2}
Calls == DOMAIN calls

\* the calls of a run are made one after the other
Turn(c) == calls[c].wait => \A b \in Calls : b < c => calls[b].status = "done"

\* the stream a Decode call pulls from is the one its Decoder holds in d.ts
\* and the one ParseGarminTrackPointExtension made over its argument
StreamOf(c) ==
    IF calls[c].op = "Decode" THEN decoders[calls[c].d].ts ELSE calls[c].sid

Strict(c) == decoders[calls[c].d].Strict

At(c, fn) ==
    /\ c \in Calls
    /\ calls[c].status = "running"
    /\ Turn(c)
    /\ Top(calls[c]).fn = fn

\* the name switch of the level whose function is fn
childOf(fn, se) ==
    IF fn = "consumeGPX" THEN gpxChild(se)
    ELSE IF fn = "consumeMetadata" THEN metadataChild(se)
    ELSE IF fn = "consumeTrack" THEN trackChild(se)
    ELSE IF fn = "consumeSegment" THEN segmentChild(se)
    ELSE pointChild(se)

\* one iteration of a level's loop: pull a token, then err / start / end
Level(c) ==
    LET call == calls[c]
        sid == StreamOf(c)
    IN  \E r \in Token(streams[sid]) :
            /\ streams' = [streams EXCEPT ![sid] = Pulled(@, r)]
            /\ calls' = [calls EXCEPT ![c] =
                   IF r.err # NoErr THEN Fail(call, r.err)
                   ELSE IF r.tok.k = "start"
                   THEN Enter(call, childOf(Top(call).fn, r.tok), r.tok, Strict(c), rev)
                   ELSE IF r.tok.k = "end" THEN Return(call, Top(call).val)
                   ELSE call]
            /\ UNCHANGED <<rev, decoders>>

\* what the reader d.r still holds when Decode makes an xml.Decoder over it.
\* The xml.Decoder an earlier Decode of the same Decoder made has taken
\* nothing before its first Token call; after it, it has taken the tokens
\* it delivered (a reader read byte by byte), or the whole input (a reader
\* read through the xml.Decoder's buffer).
ReaderLeft(d) ==
    IF d.ts = 0 \/ (streams[d.ts].pos = 0 /\ streams[d.ts].nerr = 0)
    THEN {d.r.toks}
    ELSE {<<>>, SubSeq(streams[d.ts].toks, streams[d.ts].pos + 1,
                       Len(streams[d.ts].toks))}

\* Decode pulling from one token stream kept for all calls
DecodeShared(c) ==
    /\ c \in Calls
    /\ calls[c].op = "Decode"
    /\ calls[c].status = "idle"
    /\ Turn(c)
    /\ streams' = IF streams = <<>>
                  THEN <<NewStream("xml", decoders[calls[c].d].r.toks,
                                   decoders[calls[c].d].r.flaky)>>
                  ELSE streams
    /\ decoders' = [decoders EXCEPT ![calls[c].d].ts = 1]
    /\ calls' = [calls EXCEPT ![c].status = "running",
                              ![c].sid = 1,
                              ![c].stack = <<Frame("findGPX", ZeroDocument, 0, "")>>]
    /\ UNCHANGED rev

Decode(c) ==
    /\ c \in Calls
    /\ calls[c].op = "Decode"
    /\ calls[c].status = "idle"
    /\ Turn(c)
    /\ \E left \in ReaderLeft(decoders[calls[c].d]) :
           streams' = Append(streams, NewStream("xml", left,
                                                decoders[calls[c].d].r.flaky))
    /\ decoders' = [decoders EXCEPT ![calls[c].d].ts = Len(streams) + 1]
    /\ calls' = [calls EXCEPT ![c].status = "running",
                              ![c].sid = Len(streams) + 1,
                              ![c].stack = <<Frame("findGPX", ZeroDocument, 0, "")>>]
    /\ UNCHANGED rev

findGPX(c) ==
    /\ At(c, "findGPX")
    /\ LET call == calls[c]
           sid == StreamOf(c)
       IN  \E r \in Token(streams[sid]) :
               /\ streams' = [streams EXCEPT ![sid] = Pulled(@, r)]
               /\ calls' = [calls EXCEPT ![c] =
                      IF r.err # NoErr THEN Fail(call, r.err)
                      ELSE IF r.tok.k = "start"
                      THEN IF rootCheck(r.tok) # NoErr
                           THEN Fail(call, rootCheck(r.tok))
                           ELSE SetTop(call, Frame("consumeGPX",
                                    gpxAttrs(r.tok.attr, ZeroDocument), 0, ""))
                      ELSE call]
               /\ UNCHANGED <<rev, decoders>>

consumeGPX(c) == At(c, "consumeGPX") /\ Level(c)

consumeMetadata(c) == At(c, "consumeMetadata") /\ Level(c)

consumeTrack(c) == At(c, "consumeTrack") /\ Level(c)

consumeSegment(c) == At(c, "consumeSegment") /\ Level(c)

consumePoint(c) == At(c, "consumePoint") /\ Level(c)

consumeExtensions(c) ==
    /\ At(c, "consumeExtensions")
    /\ LET call == calls[c]
           top == Top(call)
           sid == StreamOf(c)
       IN  \E r \in Token(streams[sid]) :
               /\ streams' = [streams EXCEPT ![sid] = Pulled(@, r)]
               /\ calls' = [calls EXCEPT ![c] =
                      IF r.err # NoErr THEN Fail(call, r.err)
                      ELSE LET x == consumeExtensionsOn(top.lvl, top.val, r.tok)
                           IN  IF x.ret THEN Return(call, x.tokens)
                               ELSE SetTop(call, [top EXCEPT !.lvl = x.lvl,
                                                             !.val = x.tokens])]
               /\ UNCHANGED <<rev, decoders>>

\* tokenStream.consumeString, called through consumeFloat or consumeTime
consumeString(c) ==
    /\ At(c, "consumeString")
    /\ LET call == calls[c]
           top == Top(call)
           sid == StreamOf(c)
       IN  \E r \in Token(streams[sid]) :
               /\ streams' = [streams EXCEPT ![sid] = Pulled(@, r)]
               /\ calls' = [calls EXCEPT ![c] =
                      IF r.err # NoErr THEN Fail(call, r.err)
                      ELSE LET x == consumeStringOn(top.val, r.tok)
                               p == IF top.via = "consumeFloat"
                                    THEN consumeFloat(x.s)
                                    ELSE IF top.via = "consumeTime"
                                    THEN consumeTime(x.s)
                                    ELSE extensionField(top.via, x.s)
                           IN  IF ~x.ret THEN SetTop(call, [top EXCEPT !.val = x.s])
                               ELSE IF x.err # NoErr THEN Fail(call, x.err)
                               ELSE IF p.err # NoErr THEN Fail(call, p.err)
                               ELSE Return(call, p.val)]
               /\ UNCHANGED <<rev, decoders>>

skipTag(c) ==
    /\ At(c, "skipTag")
    /\ LET call == calls[c]
           top == Top(call)
           sid == StreamOf(c)
       IN  \E r \in Token(streams[sid]) :
               /\ streams' = [streams EXCEPT ![sid] = Pulled(@, r)]
               /\ calls' = [calls EXCEPT ![c] =
                      IF r.err = Panic THEN Fail(call, r.err)
                      ELSE IF r.err # NoErr
                      THEN IF DropsSkipError(call.stack[Len(call.stack) - 1].fn)
                           THEN Return(call, 0)
                           ELSE Fail(call, r.err)
                      ELSE LET x == skipTagOn(top.lvl, r.tok)
                           IN  IF x.ret THEN Return(call, 0)
                               ELSE SetTop(call, [top EXCEPT !.lvl = x.lvl])]
               /\ UNCHANGED <<rev, decoders>>

\* Decoder.consumeEle and Decoder.consumeTime of the earlier revision
consumeEle(c) ==
    /\ At(c, "consumeEle")
    /\ LET call == calls[c]
           top == Top(call)
           sid == StreamOf(c)
       IN  \E r \in Token(streams[sid]) :
               /\ streams' = [streams EXCEPT ![sid] = Pulled(@, r)]
               /\ calls' = [calls EXCEPT ![c] =
                      IF r.err # NoErr THEN Fail(call, r.err)
                      ELSE LET x == consumeEleOn(top.val, r.tok, Strict(c))
                           IN  IF ~x.ret THEN SetTop(call, [top EXCEPT !.val = x.val])
                               ELSE IF x.err # NoErr THEN Fail(call, x.err)
                               ELSE Return(call, x.val)]
               /\ UNCHANGED <<rev, decoders>>

DecoderConsumeTime(c) ==
    /\ At(c, "Decoder.consumeTime")
    /\ LET call == calls[c]
           top == Top(call)
           sid == StreamOf(c)
       IN  \E r \in Token(streams[sid]) :
               /\ streams' = [streams EXCEPT ![sid] = Pulled(@, r)]
               /\ calls' = [calls EXCEPT ![c] =
                      IF r.err # NoErr THEN Fail(call, r.err)
                      ELSE LET x == consumeTimeOn(top.val, r.tok, Strict(c))
                           IN  IF ~x.ret THEN SetTop(call, [top EXCEPT !.val = x.val])
                               ELSE IF x.err # NoErr THEN Fail(call, x.err)
                               ELSE Return(call, x.val)]
               /\ UNCHANGED <<rev, decoders>>

\* the elements of the slice a call is given, as they are when the call is
\* made: a slice is a view of its array, which the sliceTokener of an
\* earlier call given the same slice views too
ArrayOf(c) ==
    LET same == {b \in Calls : /\ b # c
                               /\ calls[c].buf # 0
                               /\ calls[b].buf = calls[c].buf
                               /\ calls[b].sid # 0}
    IN  IF same = {} THEN calls[c].arg
        ELSE streams[calls[CHOOSE b \in same : TRUE].sid].toks

\* ParseGarminTrackPointExtension: the token stream over the argument and
\* the call of findExtension
ParseGarminTrackPointExtension(c) ==
    /\ c \in Calls
    /\ calls[c].op = "ParseGarminTrackPointExtension"
    /\ calls[c].status = "idle"
    /\ Turn(c)
    /\ streams' = Append(streams, NewStream("slice", ArrayOf(c), FALSE))
    /\ calls' = [calls EXCEPT ![c].status = "running",
                              ![c].sid = Len(streams) + 1,
                              ![c].stack = <<Frame("findExtension", ZeroExtension,
                                                   0, "")>>]
    /\ UNCHANGED <<rev, decoders>>

\* findExtension; on false its caller returns ErrNoSuchExtension, on true
\* it goes on to its loop over the extension's children
findExtension(c) ==
    /\ At(c, "findExtension")
    /\ LET call == calls[c]
           sid == StreamOf(c)
       IN  \E r \in Token(streams[sid]) :
               /\ streams' = [streams EXCEPT ![sid] = Pulled(@, r)]
               /\ calls' = [calls EXCEPT ![c] =
                      IF r.err = Panic THEN Fail(call, r.err)
                      ELSE IF r.err # NoErr THEN Fail(call, ErrNoSuchExtension)
                      ELSE LET x == findExtensionOn(r.tok, GarminTrackPointExtensionNS,
                                                    "TrackPointExtension")
                           IN  IF x = "true"
                               THEN SetTop(call, Frame("TrackPointExtension",
                                                       ZeroExtension, 0, ""))
                               ELSE IF x = "false"
                               THEN Fail(call, ErrNoSuchExtension)
                               ELSE IF x = "skipTag"
                               THEN Push(call, Frame("skipTag", 0, 0, ""))
                               ELSE call]
               /\ UNCHANGED <<rev, decoders>>

\* ParseGarminTrackPointExtension's loop over the extension's children
TrackPointExtension(c) ==
    /\ At(c, "TrackPointExtension")
    /\ LET call == calls[c]
           top == Top(call)
           sid == StreamOf(c)
       IN  \E r \in Token(streams[sid]) :
               /\ streams' = [streams EXCEPT ![sid] = Pulled(@, r)]
               /\ calls' = [calls EXCEPT ![c] =
                      IF r.err # NoErr THEN Fail(call, r.err)
                      ELSE IF r.tok.k = "start"
                      THEN IF extensionChild(r.tok) = "consumeString"
                           THEN Push(call, Frame("consumeString", <<>>, 0,
                                                 r.tok.local))
                           ELSE Push(call, Frame("skipTag", 0, 0, ""))
                      ELSE IF r.tok.k = "end"
                      THEN [call EXCEPT !.stack = <<>>, !.status = "done",
                                        !.err = NoErr, !.ext = top.val]
                      ELSE call]
               /\ UNCHANGED <<rev, decoders>>

Next ==
    \E c \in CallIds :
        \/ Decode(c)
        \/ findGPX(c)
        \/ consumeGPX(c)
        \/ consumeMetadata(c)
        \/ consumeTrack(c)
        \/ consumeSegment(c)
        \/ consumePoint(c)
        \/ consumeExtensions(c)
        \/ consumeString(c)
        \/ skipTag(c)

(***************************************************************************)
(* Inputs.  Token sequences as an xml.Decoder delivers them: start and end *)
(* tags nest and match.  They are built from element constructors over     *)
(* bounded alphabets.                                                      *)
(***************************************************************************)
nsGPX10 == "http://www.topografix.com/GPX/1/0"
nsOther == "urn:other"

S(local) == StartElement(nsGPX11, local, <<>>)
Elem(se, body) == <<se>> \o body \o <<EndElement(se.space, se.local)>>
Elems(se, bodies) == {Elem(se, b) : b \in bodies}
Cat(A, B) == {a \o b : a \in A, b \in B}

\* the concatenations of at most n members of A
RECURSIVE UpTo(_, _)
UpTo(A, n) == IF n = 0 THEN {<<>>} ELSE {<<>>} \cup Cat(A, UpTo(A, n - 1))

\* the largest number of elements below the root of a structure document
MaxNodes == 3
\* the largest number of text tokens in a leaf element
MaxTexts == 2
\* the largest number of attributes of a trkpt start tag
MaxAttrs == 2

StructNames == {"trk", "trkseg", "trkpt", "x"}

\* every forest of at most n elements named in names, in any nesting
RECURSIVE Forest(_, _)
Forest(names, n) ==
    IF n = 0 THEN {<<>>}
    ELSE {<<>>} \cup
         UNION {UNION {Cat(Elems(S(l), Forest(names, k)), Forest(names, n - 1 - k))
                       : k \in 0..(n - 1)} : l \in names}

\* every forest of at most n elements in which trk holds trkseg elements
\* and trkseg holds trkpt elements only
RECURSIVE Proper(_, _)
Proper(name, n) ==
    IF n = 0 \/ name = "" THEN {<<>>}
    ELSE LET kid == IF name = "trk" THEN "trkseg"
                    ELSE IF name = "trkseg" THEN "trkpt" ELSE ""
         IN  {<<>>} \cup
             UNION {Cat(Elems(S(name), Proper(kid, k)), Proper(name, n - 1 - k))
                    : k \in 0..(n - 1)}

\* the trkpt start tags numbered in document order through their lat
RECURSIVE Numbered(_, _)
Numbered(toks, n) ==
    IF toks = <<>> THEN <<>>
    ELSE IF Head(toks).k = "start" /\ Head(toks).local = "trkpt"
    THEN <<[Head(toks) EXCEPT !.attr = <<Attr("lat", <<Digits[(n % 10) + 1]>>)>>]>>
         \o Numbered(Tail(toks), n + 1)
    ELSE <<Head(toks)>> \o Numbered(Tail(toks), n)

GPX(body) == Elem(StartElement(nsGPX11, "gpx", <<Attr("version", "1.1")>>), body)

\* documents about structure: misplaced and unknown elements, then deeper
\* documents of well-placed tracks, segments and points
StructDocs ==
    {GPX(Numbered(f, 1)) : f \in Forest(StructNames, MaxNodes)
                                 \cup Proper("trk", MaxNodes + 2)}

\* documents about the root: tokens before it, its name, namespace and
\* attributes, its content, and tokens after its end tag
RootTags ==
    {StartElement(ns, l, a) :
        ns \in {nsGPX11, nsGPX10, nsOther}, l \in {"gpx", "trk", "x"},
        a \in {<<>>, <<Attr("version", "1.1")>>, <<Attr("version", "1.0")>>,
               <<Attr("creator", "c"), Attr("version", "2")>>}}
Track1 == Elem(S("trk"), Elem(S("trkseg"), Elem(S("trkpt"), <<>>)))
RootDocs ==
    Cat(Cat({<<>>, <<Comment>>, <<CharData(<<"x">>), Comment>>},
            UNION {Elems(se, {<<>>, Track1,
                              Elem(S("metadata"), <<>>) \o Track1}) : se \in RootTags}),
        {<<>>, <<Comment>>, Elem(S("gpx"), Track1)})

\* documents about the leaves of a point or of the metadata: one leaf with
\* every content up to MaxTexts text tokens, between simple siblings
TextToks ==
    {CharData(<<"7">>), CharData(<<"x">>), CharData(<<"5", "Z">>), CharData(<<"Z">>)}
LeafBodies ==
    UpTo({<<x>> : x \in TextToks}, MaxTexts)
    \cup {<<Comment>>, <<Comment, CharData(<<"7">>)>>,
          Elem(S("x"), <<>>), <<CharData(<<"7">>)>> \o Elem(S("x"), <<>>),
          <<CharData(<<"6", "Z">>)>> \o Elem(S("ele"), <<CharData(<<"7">>)>>)}
Leaves(name) == Elems(S(name), LeafBodies)
Envelope(body) ==
    Elem(StartElement(GarminTrackPointExtensionNS, "TrackPointExtension", <<>>), body)
Field(name, text) ==
    Elem(StartElement(GarminTrackPointExtensionNS, name, <<>>), <<CharData(text)>>)
ExtBodies ==
    {<<>>, <<CharData(<<"x">>)>>,
     Elem(S("extensions"), <<Comment>>),
     Elem(S("x"), Elem(S("ele"), <<>>)) \o <<CharData(<<"x">>)>>,
     Envelope(Field("hr", <<"1", "4", "2">>) \o Field("cad", <<"9", "0">>))}
Siblings ==
    {<<>>, <<CharData(<<"x">>)>>,
     Elem(S("ele"), <<CharData(<<"3">>)>>),
     Elem(S("time"), <<CharData(<<"4", "Z">>)>>),
     Elem(S("x"), Elem(S("ele"), <<CharData(<<"9">>)>>) \o Elem(S("x"), <<>>))}
     \cup Elems(S("extensions"), ExtBodies)
Pt(lat, lon, body) ==
    Elem(StartElement(nsGPX11, "trkpt", <<Attr("lat", lat), Attr("lon", lon)>>), body)
PointBodies ==
    Cat(Cat(Siblings, Leaves("ele") \cup Leaves("time")),
        {<<>>, Elem(S("time"), <<CharData(<<"4", "Z">>)>>),
         Elem(S("x"), Elem(S("trkpt"), <<>>))})
LeafDocs ==
    {GPX(Elem(S("trk"), Elem(S("trkseg"),
            Pt(<<"1">>, <<"2">>, b) \o Pt(<<"3">>, <<"4">>, <<>>)))) : b \in PointBodies}
    \cup {GPX(Elem(S("metadata"), b) \o Elem(S("metadata"), <<>>) \o Track1)
          : b \in Cat(Cat({<<>>, Elem(S("time"), <<CharData(<<"4", "Z">>)>>),
                           Elem(S("x"), Elem(S("time"), <<>>))},
                          Leaves("time")), {<<>>, Elem(S("trk"), <<>>)})}

\* documents about the attributes of a trkpt start tag
AttrLists ==
    LET one == {<<Attr(n, v)>> : n \in {"lat", "lon"}, v \in {<<"4", "9">>, <<"x">>}}
                 \cup {<<Attr("name", <<"x">>)>>}
    IN  UpTo(one, MaxAttrs)
AttrDocs ==
    {GPX(Elem(S("trk"), Elem(S("trkseg"),
            Elem(StartElement(nsGPX11, "trkpt", a), b)
            \o Pt(<<"1">>, <<"2">>, <<>>)))) :
        a \in AttrLists, b \in {<<>>, Elem(S("ele"), <<CharData(<<"3">>)>>)}}

Reader(toks, flaky) == [toks |-> toks, flaky |-> flaky]

\* every document read to its end; the documents about leaves and the
\* root also through a reader that may fail, and cut off at any token
RECURSIVE Prefixes(_)
Prefixes(toks) ==
    IF toks = <<>> THEN {<<>>}
    ELSE {toks} \cup Prefixes(SubSeq(toks, 1, Len(toks) - 1))
Sample == GPX(Elem(S("metadata"), Elem(S("time"), <<CharData(<<"4", "Z">>)>>))
              \o Elem(S("trk"), Elem(S("trkseg"),
                    Pt(<<"1">>, <<"2">>,
                       Elem(S("ele"), <<CharData(<<"3">>)>>)
                       \o Elem(S("extensions"), Elem(S("x"), <<>>))
                       \o Elem(S("x"), <<>>)))))
Inputs ==
    {Reader(d, FALSE) : d \in StructDocs \cup LeafDocs \cup AttrDocs}
    \cup {Reader(d, FALSE) : d \in Prefixes(Sample)}
    \cup {Reader(d, TRUE) : d \in RootDocs \cup {Sample}}

NewDecoder(r, strict) == [Strict |-> strict, r |-> r, ts |-> 0]

NewCall(op, d) ==
    [op |-> op, d |-> d, arg |-> <<>>, buf |-> 0, wait |-> TRUE, sid |-> 0,
     stack |-> <<>>, status |-> "idle", doc |-> ZeroDocument,
     ext |-> ZeroExtension, err |-> NoErr]

Init ==
    /\ rev = "final"
    /\ \E r \in Inputs, strict \in BOOLEAN :
           decoders = <<NewDecoder(r, strict)>>
    /\ streams = <<>>
    /\ calls = <<NewCall("Decode", 1)>>

Spec == Init /\ [][Next]_vars

(***************************************************************************)
(* The element structure of a token sequence, read off the sequence by     *)
(* position: it does not run the decoder.                                  *)
(***************************************************************************)
Starts(toks) == {i \in 1..Len(toks) : toks[i].k = "start"}
Ends(toks) == {i \in 1..Len(toks) : toks[i].k = "end"}

\* the number of elements open before token i
DepthAt(toks, i) ==
    Cardinality({j \in Starts(toks) : j < i}) - Cardinality({j \in Ends(toks) : j < i})

Min(set) == CHOOSE x \in set : \A y \in set : x <= y

\* the first start tag, 0 when there is none
FirstStart(toks) == IF Starts(toks) = {} THEN 0 ELSE Min(Starts(toks))

\* the end tag of the element start tag i opens, Len(toks) + 1 when cut off
CloseOf(toks, i) ==
    LET depth == DepthAt(toks, i) + 1
        ends == {j \in Ends(toks) : j > i /\ DepthAt(toks, j) = depth}
    IN  IF ends = {} THEN Len(toks) + 1 ELSE Min(ends)

\* the child elements of element i, as the set of their start tags
ChildrenOf(toks, i) ==
    LET depth == DepthAt(toks, i) + 1
        close == CloseOf(toks, i)
    IN  {j \in Starts(toks) : i < j /\ j < close /\ DepthAt(toks, j) = depth}

\* a set of positions in increasing order
RECURSIVE Sorted(_)
Sorted(set) ==
    IF set = {} THEN <<>> ELSE <<Min(set)>> \o Sorted(set \ {Min(set)})

\* the children of element i named local, in document order
Named(toks, i, local) ==
    Sorted({j \in ChildrenOf(toks, i) : toks[j].local = local})

\* the value of the last attribute called name whose text is a number
RECURSIVE NumberAttr(_, _)
NumberAttr(attr, name) ==
    IF attr = <<>> THEN 0
    ELSE LET a == attr[Len(attr)]
         IN  IF a.name = name /\ ParseFloat(a.value).ok THEN ParseFloat(a.value).val
             ELSE NumberAttr(SubSeq(attr, 1, Len(attr) - 1), name)

\* the value of the last attribute called name, dflt when there is none
RECURSIVE LastAttr(_, _, _)
LastAttr(attr, name, dflt) ==
    IF attr = <<>> THEN dflt
    ELSE IF attr[Len(attr)].name = name THEN attr[Len(attr)].value
    ELSE LastAttr(SubSeq(attr, 1, Len(attr) - 1), name, dflt)

\* the tokens between start tag i and its end tag
Content(toks, i) == SubSeq(toks, i + 1, CloseOf(toks, i) - 1)

\* element i holds text tokens only
Plain(toks, i) == \A j \in 1..Len(Content(toks, i)) : Content(toks, i)[j].k = "text"

\* the texts of a token sequence, concatenated
RECURSIVE TextOf(_)
TextOf(body) ==
    IF body = <<>> THEN <<>>
    ELSE (IF Head(body).k = "text" THEN Head(body).s ELSE <<>>) \o TextOf(Tail(body))

\* the elements at their grammar positions
RootOK(toks) ==
    /\ FirstStart(toks) > 0
    /\ toks[FirstStart(toks)].local = "gpx"
    /\ toks[FirstStart(toks)].space = nsGPX11
Complete(toks) == RootOK(toks) /\ CloseOf(toks, FirstStart(toks)) <= Len(toks)
Within(toks, parents, local) ==
    UNION {{j \in ChildrenOf(toks, i) : toks[j].local = local} : i \in parents}
TrkAt(toks) == Within(toks, {FirstStart(toks)}, "trk")
MetadataAt(toks) == Within(toks, {FirstStart(toks)}, "metadata")
TrksegAt(toks) == Within(toks, TrkAt(toks), "trkseg")
TrkptAt(toks) == Within(toks, TrksegAt(toks), "trkpt")
EleAt(toks) == Within(toks, TrkptAt(toks), "ele")
TimeAt(toks) == Within(toks, TrkptAt(toks) \cup MetadataAt(toks), "time")

\* leaf i holds text only and the text is, or is not, a value
GoodEle(toks, i) == Plain(toks, i) /\ ParseFloat(TextOf(Content(toks, i))).ok
BadEle(toks, i) == Plain(toks, i) /\ ~ParseFloat(TextOf(Content(toks, i))).ok
GoodTime(toks, i) == Plain(toks, i) /\ ParseTime(TextOf(Content(toks, i))).ok
BadTime(toks, i) == Plain(toks, i) /\ ~ParseTime(TextOf(Content(toks, i))).ok

\* every lat and lon of a point is a number
GoodCoordinates(toks) ==
    \A p \in TrkptAt(toks) : \A a \in 1..Len(toks[p].attr) :
        toks[p].attr[a].name \in {"lat", "lon"} => ParseFloat(toks[p].attr[a].value).ok

\* the Document a complete document stands for when every field that does
\* not parse is left at its zero value: of repeated children the last counts
Last(seq) == seq[Len(seq)]
EleOf(toks, p) ==
    LET es == Named(toks, p, "ele")
    IN  IF es = <<>> THEN 0 ELSE ParseFloat(TextOf(Content(toks, Last(es)))).val
TimeOf(toks, p) ==
    LET ts == Named(toks, p, "time")
    IN  IF ts = <<>> THEN ZeroTime ELSE ParseTime(TextOf(Content(toks, Last(ts)))).val
ExtensionsOf(toks, p) ==
    LET xs == Named(toks, p, "extensions")
    IN  IF xs = <<>> THEN <<>> ELSE Content(toks, Last(xs))
PointOf(toks, p) ==
    [Latitude |-> NumberAttr(toks[p].attr, "lat"),
     Longitude |-> NumberAttr(toks[p].attr, "lon"),
     Elevation |-> EleOf(toks, p),
     Time |-> TimeOf(toks, p),
     Extensions |-> ExtensionsOf(toks, p)]
SegmentOf(toks, s) ==
    LET pts == Named(toks, s, "trkpt")
    IN  [Points |-> [p \in 1..Len(pts) |-> PointOf(toks, pts[p])]]
TrackOf(toks, t) ==
    LET segs == Named(toks, t, "trkseg")
    IN  [Segments |-> [s \in 1..Len(segs) |-> SegmentOf(toks, segs[s])]]
MetadataOf(toks) ==
    LET ms == Named(toks, FirstStart(toks), "metadata")
    IN  IF ms = <<>> THEN ZeroMetadata ELSE [Time |-> TimeOf(toks, Last(ms))]
DocumentOf(toks) ==
    LET trks == Named(toks, FirstStart(toks), "trk")
    IN  [Version |-> LastAttr(toks[FirstStart(toks)].attr, "version", ""),
         Metadata |-> MetadataOf(toks),
         Tracks |-> [t \in 1..Len(trks) |-> TrackOf(toks, trks[t])]]

(***************************************************************************)
(* The calls of a run, as the claims speak of them.                        *)
(***************************************************************************)
Done(c) == c \in Calls /\ calls[c].status = "done"
Accepted(c) == Done(c) /\ calls[c].err = NoErr
Input(c) == decoders[calls[c].d].r.toks
Stream(c) == streams[calls[c].sid]
\* the source delivered token i to the call
Delivered(c, i) == i > 0 /\ Stream(c).pos >= i
\* the reader under the call's token source has not failed
NoReadError(c) == Stream(c).srcErr = NoErr

(***************************************************************************)
(* C1.  When the first start tag the source delivers has a local name      *)
(* other than gpx, Decode fails with ErrBadRootTag, whatever the tag's     *)
(* namespace, the tokens before it and the tokens after it; it returns the *)
(* empty Document and pulls no token after that tag.                       *)
(***************************************************************************)
RootIsNot(c, local) ==
    /\ Delivered(c, FirstStart(Input(c)))
    /\ Input(c)[FirstStart(Input(c))].local # local

C1_BadRootTag ==
    \A c \in Calls :
        Done(c) /\ RootIsNot(c, "gpx") =>
            /\ calls[c].err = ErrBadRootTag
            /\ calls[c].doc = ZeroDocument
            /\ Stream(c).pos = FirstStart(Input(c))

\* a trk root in the GPX 1.1 namespace, after a text and a comment, with
\* content after it, has been refused
C1_Witness ==
    /\ Done(1)
    /\ RootIsNot(1, "gpx")
    /\ FirstStart(Input(1)) = 3
    /\ Input(1)[3].space = nsGPX11
    /\ Len(Input(1)) > 4
    /\ calls[1].err = ErrBadRootTag

(***************************************************************************)
(* C2.  When the first start tag is named gpx and its namespace is not the *)
(* GPX 1.1 namespace, Decode fails with ErrGPX11Only and decodes nothing:  *)
(* the Document is empty and no token after the tag is pulled.             *)
(***************************************************************************)
RootIsForeignGPX(c) ==
    /\ Delivered(c, FirstStart(Input(c)))
    /\ Input(c)[FirstStart(Input(c))].local = "gpx"
    /\ Input(c)[FirstStart(Input(c))].space # nsGPX11

C2_GPX11Only ==
    \A c \in Calls :
        Done(c) /\ RootIsForeignGPX(c) =>
            /\ calls[c].err = ErrGPX11Only
            /\ calls[c].doc = ZeroDocument
            /\ Stream(c).pos = FirstStart(Input(c))

\* a GPX 1.0 root with a version attribute and a track has been refused
C2_Witness ==
    /\ Done(1)
    /\ RootIsForeignGPX(1)
    /\ Input(1)[FirstStart(Input(1))].space = nsGPX10
    /\ Input(1)[FirstStart(Input(1))].attr # <<>>
    /\ Len(Input(1)) > FirstStart(Input(1)) + 1
    /\ calls[1].err = ErrGPX11Only

(***************************************************************************)
(* C3.  When Decode accepts a document, Tracks has one entry per trk child *)
(* of the root, in order; the t-th Track has one Segment per trkseg child  *)
(* of the t-th trk, in order; the s-th Segment has one Point per trkpt     *)
(* child of that trkseg, and the p-th Point carries the lat of the p-th    *)
(* such trkpt.  Elements are told apart by their local names.              *)
(***************************************************************************)
SameStructure(doc, toks) ==
    LET trks == Named(toks, FirstStart(toks), "trk")
    IN  /\ Len(doc.Tracks) = Len(trks)
        /\ \A t \in 1..Len(trks) :
               LET segs == Named(toks, trks[t], "trkseg")
                   track == doc.Tracks[t]
               IN  /\ Len(track.Segments) = Len(segs)
                   /\ \A s \in 1..Len(segs) :
                          LET pts == Named(toks, segs[s], "trkpt")
                              seg == track.Segments[s]
                          IN  /\ Len(seg.Points) = Len(pts)
                              /\ \A p \in 1..Len(pts) :
                                     seg.Points[p].Latitude
                                         = NumberAttr(toks[pts[p]].attr, "lat")

C3_CountsAndOrder ==
    \A c \in Calls : Accepted(c) => SameStructure(calls[c].doc, Input(c))

\* a document with two tracks, the second of which has a segment of two
\* points, has been decoded
C3_Witness ==
    /\ Accepted(1)
    /\ Len(calls[1].doc.Tracks) = 2
    /\ calls[1].doc.Tracks[1].Segments = <<>>
    /\ Len(calls[1].doc.Tracks[2].Segments) = 1
    /\ Len(calls[1].doc.Tracks[2].Segments[1].Points) = 2
    /\ calls[1].doc.Tracks[2].Segments[1].Points[1].Latitude = 1
    /\ calls[1].doc.Tracks[2].Segments[1].Points[2].Latitude = 2

(***************************************************************************)
(* C4.  A document whose only defect is an ele text that is not a number:  *)
(* a strict Decode fails; a lenient Decode succeeds, leaves that           *)
(* Elevation at 0 and decodes every other field and point as usual.        *)
(***************************************************************************)
OnlyBadEle(toks) ==
    /\ Complete(toks)
    /\ GoodCoordinates(toks)
    /\ \A i \in TimeAt(toks) : GoodTime(toks, i)
    /\ \A i \in EleAt(toks) : Plain(toks, i)
    /\ \E i \in EleAt(toks) : BadEle(toks, i)

C4_LenientEle ==
    \A c \in Calls :
        Done(c) /\ NoReadError(c) /\ OnlyBadEle(Input(c)) =>
            IF Strict(c) THEN calls[c].err # NoErr
            ELSE /\ calls[c].err = NoErr
                 /\ calls[c].doc = DocumentOf(Input(c))

(***************************************************************************)
(* C5.  A document whose only defect is a time text of a point that is not *)
(* a timestamp: a strict Decode fails; a lenient Decode surfaces no error, *)
(* leaves that Time zero and goes on with the following tokens.            *)
(***************************************************************************)
OnlyBadTime(toks) ==
    /\ Complete(toks)
    /\ GoodCoordinates(toks)
    /\ \A i \in EleAt(toks) : GoodEle(toks, i)
    /\ \A i \in TimeAt(toks) : Plain(toks, i)
    /\ \A i \in Within(toks, MetadataAt(toks), "time") : GoodTime(toks, i)
    /\ \E i \in Within(toks, TrkptAt(toks), "time") : BadTime(toks, i)

C5_LenientTime ==
    \A c \in Calls :
        Done(c) /\ NoReadError(c) /\ OnlyBadTime(Input(c)) =>
            IF Strict(c) THEN calls[c].err # NoErr
            ELSE /\ calls[c].err = NoErr
                 /\ calls[c].doc = DocumentOf(Input(c))

(***************************************************************************)
(* C6.  In a document whose leaves are all well formed, a lat or lon that  *)
(* is not a number makes a strict Decode fail, naming the coordinate; a    *)
(* lenient Decode leaves only that coordinate at 0 (or at the value of an  *)
(* earlier attribute of the same name), and decodes the other coordinate,  *)
(* the point's children and every later point.  One decoder of either      *)
(* strictness decodes a document about the attributes of a trkpt start tag. *)
(***************************************************************************)
InitAttr ==
    /\ rev = "final"
    /\ \E toks \in AttrDocs \cup {Sample}, strict \in BOOLEAN :
           decoders = <<NewDecoder(Reader(toks, FALSE), strict)>>
    /\ streams = <<>>
    /\ calls = <<NewCall("Decode", 1)>>

SpecAttr == InitAttr /\ [][Next]_vars

GoodLeaves(toks) ==
    /\ Complete(toks)
    /\ \A i \in EleAt(toks) : GoodEle(toks, i)
    /\ \A i \in TimeAt(toks) : GoodTime(toks, i)

\* the error of the first coordinate, in document order, that is no number
RECURSIVE FirstBadAttr(_)
FirstBadAttr(attr) ==
    IF attr = <<>> THEN NoErr
    ELSE IF Head(attr).name = "lat" /\ ~ParseFloat(Head(attr).value).ok
    THEN ErrInvalidLat
    ELSE IF Head(attr).name = "lon" /\ ~ParseFloat(Head(attr).value).ok
    THEN ErrInvalidLon
    ELSE FirstBadAttr(Tail(attr))
FirstBadCoordinate(toks) ==
    LET bad == {p \in TrkptAt(toks) : FirstBadAttr(toks[p].attr) # NoErr}
    IN  IF bad = {} THEN NoErr ELSE FirstBadAttr(toks[Min(bad)].attr)

C6_Coordinates ==
    \A c \in Calls :
        Done(c) /\ NoReadError(c) /\ GoodLeaves(Input(c)) =>
            IF Strict(c) /\ ~GoodCoordinates(Input(c))
            THEN calls[c].err = FirstBadCoordinate(Input(c))
            ELSE /\ calls[c].err = NoErr
                 /\ calls[c].doc = DocumentOf(Input(c))

\* a lenient decode of a point whose lat is no number and whose lon is 49,
\* with an ele child and a later point
C6_Witness ==
    /\ Accepted(1)
    /\ ~Strict(1)
    /\ ~GoodCoordinates(Input(1))
    /\ calls[1].doc.Tracks[1].Segments[1].Points
          = <<[ZeroPoint EXCEPT !.Longitude = 49, !.Elevation = 3],
              [ZeroPoint EXCEPT !.Latitude = 1, !.Longitude = 2]>>

\* a strict decode has failed on a lon that is no number, after a good lat
C6_WitnessStrict ==
    /\ Done(1)
    /\ Strict(1)
    /\ GoodLeaves(Input(1))
    /\ calls[1].err = ErrInvalidLon

(***************************************************************************)
(* C7.  An element whose name its parent does not recognise, with any      *)
(* nested content, put directly under gpx, metadata, trk, trkseg or trkpt, *)
(* leaves the outcome of Decode as it is without the element: the same     *)
(* Document and the same error.  Two decoders of the same strictness       *)
(* decode the document without and with the element, one after the other.  *)
(***************************************************************************)
\* the names each grammar level recognises
Recognized(local) ==
    IF local = "gpx" THEN {"metadata", "trk"}
    ELSE IF local = "metadata" THEN {"time"}
    ELSE IF local = "trk" THEN {"trkseg"}
    ELSE IF local = "trkseg" THEN {"trkpt"}
    ELSE {"ele", "time", "extensions"}

\* the elements at a grammar level
LevelsAt(toks) ==
    IF RootOK(toks)
    THEN {FirstStart(toks)} \cup MetadataAt(toks) \cup TrkAt(toks)
         \cup TrksegAt(toks) \cup TrkptAt(toks)
    ELSE {}

\* the innermost element open after token j, 0 when none is
ParentAt(toks, j) ==
    LET open == {i \in Starts(toks) : i <= j /\ CloseOf(toks, i) > j}
    IN  IF open = {} THEN 0 ELSE CHOOSE i \in open : \A k \in open : k <= i

InsertAt(toks, j, sub) == SubSeq(toks, 1, j) \o sub \o SubSeq(toks, j + 1, Len(toks))

\* elements to insert: names in and out of the GPX namespace, names other
\* levels recognise, nested content with recognised names, text, comments
InsertTags ==
    {S("x"), StartElement(nsOther, "x", <<Attr("lat", <<"7">>)>>), S("ele"),
     StartElement(nsGPX11, "trkpt", <<Attr("lat", <<"7">>), Attr("lon", <<"x">>)>>)}
InsertBodies ==
    {<<>>, <<CharData(<<"x">>)>>,
     Elem(S("x"), <<Comment>> \o Elem(S("x"), <<>>)) \o <<CharData(<<"7">>)>>,
     Elem(S("metadata"), Elem(S("time"), <<CharData(<<"9", "Z">>)>>)) \o Track1}
Unknowns == UNION {Elems(se, InsertBodies) : se \in InsertTags}

\* ins is toks with an unrecognised element put at a grammar level
IsInsertion(toks, ins) ==
    \E j \in 1..Len(toks), sub \in Unknowns :
        /\ ins = InsertAt(toks, j, sub)
        /\ ParentAt(toks, j) \in LevelsAt(toks)
        /\ sub[1].local \notin Recognized(toks[ParentAt(toks, j)].local)

\* the documents to insert into: complete, cut off, and with a coordinate
\* that only a lenient decoder accepts
InsertBases ==
    {Sample, SubSeq(Sample, 1, 14), SubSeq(Sample, 1, 5),
     GPX(Elem(S("trk"), Elem(S("trkseg"),
            Pt(<<"x">>, <<"2">>, Elem(S("time"), <<CharData(<<"4", "Z">>)>>))
            \o Pt(<<"3">>, <<"4">>, <<>>))))}

InitInsert ==
    /\ rev = "final"
    /\ \E toks \in InsertBases, strict \in BOOLEAN :
           \E j \in 1..Len(toks), sub \in Unknowns :
               /\ ParentAt(toks, j) \in LevelsAt(toks)
               /\ sub[1].local \notin Recognized(toks[ParentAt(toks, j)].local)
               /\ decoders = <<NewDecoder(Reader(toks, FALSE), strict),
                               NewDecoder(Reader(InsertAt(toks, j, sub), FALSE),
                                          strict)>>
    /\ streams = <<>>
    /\ calls = <<NewCall("Decode", 1), NewCall("Decode", 2)>>

SpecInsert == InitInsert /\ [][Next]_vars

C7_UnknownIgnored ==
    /\ Len(calls) = 2
    /\ Done(1) /\ Done(2)
    /\ Strict(1) = Strict(2)
    /\ IsInsertion(Input(1), Input(2))
    => /\ calls[2].doc = calls[1].doc
       /\ calls[2].err = calls[1].err

\* both decodes have succeeded with the same point; the inserted element
\* is a child of the trkpt and holds a metadata and a track of its own
C7_Witness ==
    /\ Len(calls) = 2
    /\ Accepted(1) /\ Accepted(2)
    /\ Len(calls[2].doc.Tracks) = 1
    /\ \E j \in 1..Len(Input(1)) :
           /\ ParentAt(Input(1), j) \in TrkptAt(Input(1))
           /\ Input(2) = InsertAt(Input(1), j,
                  Elem(S("x"), Elem(S("metadata"),
                                    Elem(S("time"), <<CharData(<<"9", "Z">>)>>))
                               \o Track1))

(***************************************************************************)
(* C8.  A start tag inside an ele or time leaf makes Decode fail, strict   *)
(* or lenient, in the final revision (consumeString) and in the earlier    *)
(* one (Decoder.consumeEle, Decoder.consumeTime); the decoder reads no     *)
(* token beyond that start tag.                                            *)
(***************************************************************************)
RevDocs ==
    {GPX(Elem(S("trk"), Elem(S("trkseg"), Pt(<<"1">>, <<"2">>, b)))) :
        b \in Cat(Cat({<<>>, Elem(S("extensions"), Elem(S("x"), <<>>))},
                      Leaves("ele") \cup Leaves("time")),
                  {<<>>, Elem(S("x"), Elem(S("trkpt"), <<>>))})}
    \cup {GPX(Elem(S("metadata"), b) \o Track1) :
            b \in Cat({<<>>, Elem(S("x"), Elem(S("time"), <<>>))}, Leaves("time"))}

InitRev ==
    /\ rev \in {"final", "earlier"}
    /\ \E toks \in RevDocs, strict \in BOOLEAN :
           decoders = <<NewDecoder(Reader(toks, FALSE), strict)>>
    /\ streams = <<>>
    /\ calls = <<NewCall("Decode", 1)>>

NextRev ==
    \E c \in CallIds :
        \/ Decode(c)
        \/ findGPX(c)
        \/ consumeGPX(c)
        \/ consumeMetadata(c)
        \/ consumeTrack(c)
        \/ consumeSegment(c)
        \/ consumePoint(c)
        \/ consumeExtensions(c)
        \/ consumeString(c)
        \/ skipTag(c)
        \/ consumeEle(c)
        \/ DecoderConsumeTime(c)

SpecRev == InitRev /\ [][NextRev]_vars

\* the start tags inside element i
StartsIn(toks, i) == {j \in Starts(toks) : i < j /\ j < CloseOf(toks, i)}
\* the ele and time leaves that hold a start tag
NestedLeaves(toks) ==
    {i \in EleAt(toks) \cup TimeAt(toks) : StartsIn(toks, i) # {}}

C8_NestedStartFails ==
    \A c \in Calls :
        Done(c) /\ NestedLeaves(Input(c)) # {} =>
            /\ calls[c].err # NoErr
            /\ Stream(c).pos <= Min(StartsIn(Input(c), Min(NestedLeaves(Input(c)))))

\* a lenient decode of the final revision has failed on the start tag in a
\* leaf whose text before it is a number
C8_Witness ==
    /\ Done(1)
    /\ rev = "final"
    /\ ~Strict(1)
    /\ calls[1].err = ErrUnexpectedElement
    /\ \E i \in EleAt(Input(1)) :
           /\ StartsIn(Input(1), i) # {}
           /\ Input(1)[i + 1] = CharData(<<"7">>)

\* a lenient decode of the earlier revision has failed in the same way
C8_WitnessEarlier ==
    /\ Done(1)
    /\ rev = "earlier"
    /\ ~Strict(1)
    /\ calls[1].err = ErrInvalidTime
    /\ NestedLeaves(Input(1)) # {}

(***************************************************************************)
(* C9.  Whenever Decode returns an error, the Document it returns beside   *)
(* the error is empty: no Version, no Metadata, no Tracks.                 *)
(***************************************************************************)
C9_NoPartialDocument ==
    \A c \in Calls :
        Done(c) /\ calls[c].op = "Decode" /\ calls[c].err # NoErr =>
            calls[c].doc = ZeroDocument

(***************************************************************************)
(* ParseGarminTrackPointExtension on token buffers: empty; balanced with   *)
(* and without the extension's element; cut off; and with a nil token.     *)
(***************************************************************************)
\* the largest number of children of a TrackPointExtension element
MaxFields == 2

G(local) == StartElement(GarminTrackPointExtensionNS, local, <<>>)
FieldElems ==
    {Field("hr", <<"1", "4", "2">>), Field("cad", <<"-", "1">>),
     Field("atemp", <<"x">>), Field("depth", <<"7">>),
     Elem(G("wtemp"), <<CharData(<<"2">>), CharData(<<"5">>)>>),
     Elem(G("hr"), <<CharData(<<"9">>)>> \o Elem(G("x"), <<>>)),
     Elem(G("x"), Field("hr", <<"5">>)),
     Elem(S("hr"), <<CharData(<<"6">>)>>),
     <<Comment>>}
NoExtension ==
    {<<>>, <<CharData(<<"x">>)>>, <<Comment>>, Elem(S("x"), <<>>),
     Elem(StartElement(nsOther, "TrackPointExtension", <<>>), Field("hr", <<"5">>)),
     Elem(G("hr"), <<CharData(<<"5">>)>>),
     Elem(S("x"), Elem(S("x"), <<>>)) \o Elem(G("x"), <<>>)}
WithExtension ==
    Cat(Cat({<<>>, Elem(S("x"), <<CharData(<<"x">>)>>)},
            {Envelope(b) : b \in UpTo(FieldElems, MaxFields)}),
        {<<>>, Elem(S("x"), <<>>)})
\* buffers with a heart rate and a cadence: siblings before the extension,
\* unknown children between the two, texts in one or two tokens
UnknownElems ==
    {<<>>, <<CharData(<<"x">>), Comment>>, Elem(G("x"), Field("hr", <<"5">>)),
     Elem(S("hr"), <<CharData(<<"6">>)>>), Elem(S("x"), Elem(S("x"), <<>>))}
Rates ==
    {Field("hr", <<"1", "4", "2">>) \o u \o Field("cad", <<"9", "0">>) \o v :
        u \in UnknownElems, v \in UnknownElems}
    \cup {Field("cad", <<"0">>) \o u
          \o Elem(G("hr"), <<CharData(<<"1">>), CharData(<<"4">>)>>) :
            u \in UnknownElems}
    \cup {Field("hr", <<"7">>) \o Field("cad", <<"9", "0">>)
          \o Field("hr", <<"1", "4", "2">>)}
RoundTrips ==
    Cat(Cat({<<>>, <<CharData(<<"x">>)>> \o Elem(S("x"), Elem(G("hr"), <<>>))},
            {Envelope(b) : b \in Rates}),
        {<<>>, Envelope(Field("hr", <<"1">>))})

Buffers ==
    NoExtension \cup WithExtension \cup RoundTrips
    \cup {Elem(S("x"), Envelope(Field("hr", <<"5">>)))}
    \cup {b \o <<NilToken>> : b \in NoExtension}
    \cup {<<G("TrackPointExtension")>> \o b \o <<NilToken>> :
            b \in {<<>>, <<G("x")>>, <<G("hr"), CharData(<<"5">>)>>}}
    \cup {<<EndElement(nsGPX11, "extensions")>>}
    \cup Prefixes(Envelope(Field("hr", <<"1", "4", "2">>)))

InitExt ==
    /\ rev = "final"
    /\ decoders = <<>>
    /\ streams = <<>>
    /\ \E tokens \in Buffers :
           calls = <<[NewCall("ParseGarminTrackPointExtension", 0)
                         EXCEPT !.arg = tokens]>>

NextExt ==
    \E c \in CallIds :
        \/ ParseGarminTrackPointExtension(c)
        \/ findExtension(c)
        \/ TrackPointExtension(c)
        \/ consumeString(c)
        \/ skipTag(c)

SpecExt == InitExt /\ [][NextExt]_vars

\* every start tag of the buffer has its end tag, no end tag lacks its
\* start tag, and no token is nil
Balanced(toks) ==
    /\ \A i \in 1..Len(toks) : toks[i] # NilToken
    /\ \A i \in Starts(toks) : CloseOf(toks, i) <= Len(toks)
    /\ \A i \in Ends(toks) : DepthAt(toks, i) >= 1
\* no element of the buffer is the Garmin TrackPointExtension
NoEnvelope(toks) ==
    \A i \in Starts(toks) :
        ~(toks[i].space = GarminTrackPointExtensionNS
          /\ toks[i].local = "TrackPointExtension")

(***************************************************************************)
(* C10.  ParseGarminTrackPointExtension returns ErrNoSuchExtension, and    *)
(* nothing else, for an empty buffer and for a balanced buffer without a   *)
(* TrackPointExtension element of the Garmin namespace.                    *)
(***************************************************************************)
C10_NoSuchExtension ==
    \A c \in Calls :
        /\ Done(c)
        /\ calls[c].op = "ParseGarminTrackPointExtension"
        /\ Balanced(calls[c].arg)
        /\ NoEnvelope(calls[c].arg)
        => calls[c].err = ErrNoSuchExtension

(***************************************************************************)
(* The extension of a buffer, read off the buffer by position.             *)
(***************************************************************************)
KnownFields == {"hr", "cad", "atemp", "wtemp", "depth"}
IsEnvelope(tok) ==
    tok.space = GarminTrackPointExtensionNS /\ tok.local = "TrackPointExtension"
\* the first top-level TrackPointExtension element, 0 when there is none
EnvelopeAt(toks) ==
    LET found == {i \in Starts(toks) : DepthAt(toks, i) = 0 /\ IsEnvelope(toks[i])}
    IN  IF found = {} THEN 0 ELSE Min(found)
\* the children of element e that are the field called name, in order
FieldsAt(toks, e, name) ==
    Sorted({j \in ChildrenOf(toks, e) :
               toks[j].space = GarminTrackPointExtensionNS /\ toks[j].local = name})
KnownAt(toks, e) ==
    {j \in ChildrenOf(toks, e) :
        toks[j].space = GarminTrackPointExtensionNS /\ toks[j].local \in KnownFields}
FieldText(toks, j) == TextOf(Content(toks, j))
ParseCalls == {c \in Calls : calls[c].op = "ParseGarminTrackPointExtension"}

(***************************************************************************)
(* C11.  A balanced buffer with a top-level TrackPointExtension element    *)
(* whose known children are hr and cad elements with texts of digits,      *)
(* after any siblings and between any unknown children: the parse returns  *)
(* no error, HeartRate and Cadence are the numbers of the (last) hr and    *)
(* cad texts, and the last token read is the element's end tag.            *)
(***************************************************************************)
HasRates(toks) ==
    LET e == EnvelopeAt(toks)
    IN  /\ Balanced(toks)
        /\ e # 0
        /\ FieldsAt(toks, e, "hr") # <<>>
        /\ FieldsAt(toks, e, "cad") # <<>>
        /\ \A j \in KnownAt(toks, e) :
               /\ toks[j].local \in {"hr", "cad"}
               /\ Plain(toks, j)
               /\ AllDigits(FieldText(toks, j))

PlainFields(toks) ==
    LET e == EnvelopeAt(toks)
    IN  /\ Balanced(toks)
        /\ e # 0
        /\ \A j \in KnownAt(toks, e) : Plain(toks, j)
BadFieldsAt(toks, e) ==
    {j \in KnownAt(toks, e) :
        IF toks[j].local \in {"hr", "cad"} THEN ~Atoi(FieldText(toks, j)).ok
        ELSE ~ParseFloat(FieldText(toks, j)).ok}

\* the value of the field called name: of its last element; zero when that
\* text is no number or there is no such element
FloatField(toks, e, name) ==
    LET fs == FieldsAt(toks, e, name)
    IN  IF fs = <<>> \/ ~ParseFloat(FieldText(toks, Last(fs))).ok THEN 0
        ELSE ParseFloat(FieldText(toks, Last(fs))).val
\* an unsigned field agrees with it unless the text is a negative number
UintFieldOK(toks, e, name, v) ==
    LET fs == FieldsAt(toks, e, name)
    IN  IF fs = <<>> \/ ~Atoi(FieldText(toks, Last(fs))).ok THEN v = uint(0)
        ELSE Atoi(FieldText(toks, Last(fs))).val >= 0
                => v = uint(Atoi(FieldText(toks, Last(fs))).val)

RECURSIVE Flat(_)
Flat(seqs) == IF seqs = <<>> THEN <<>> ELSE Head(seqs) \o Flat(Tail(seqs))
DocPoints(doc) ==
    Flat([s \in 1..Len(Flat([t \in 1..Len(doc.Tracks) |-> doc.Tracks[t].Segments]))
            |-> Flat([t \in 1..Len(doc.Tracks) |-> doc.Tracks[t].Segments])[s].Points])

\* every prefix has at least as many start tags as end tags, the whole as many
BalancedSeq(buf) ==
    /\ \A k \in 1..Len(buf) : DepthAt(buf, k + 1) >= 0
    /\ DepthAt(buf, Len(buf) + 1) = 0
CountOf(buf, kinds) == Cardinality({i \in 1..Len(buf) : buf[i].k \in kinds})

\* the points with an extensions child, as pairs of a decoded point and the
\* start tag of that child
Captured(c) ==
    LET toks == Input(c)
        src == Sorted(TrkptAt(toks))
        pts == DocPoints(calls[c].doc)
    IN  {<<pts[i], Last(Named(toks, src[i], "extensions"))>> :
            i \in {k \in 1..Len(src) : Named(toks, src[k], "extensions") # <<>>}}

C13_BufferCounted ==
    \A c \in Calls :
        Accepted(c) /\ calls[c].op = "Decode" =>
            /\ Len(DocPoints(calls[c].doc)) = Cardinality(TrkptAt(Input(c)))
            /\ \A pair \in Captured(c) :
                   LET buf == pair[1].Extensions
                   IN  /\ buf = Content(Input(c), pair[2])
                       /\ BalancedSeq(buf)
                       /\ Len(buf) = CountOf(buf, {"start", "end", "text"})

C13_BufferCaptured ==
    \A c \in Calls :
        Accepted(c) /\ calls[c].op = "Decode" =>
            /\ Len(DocPoints(calls[c].doc)) = Cardinality(TrkptAt(Input(c)))
            /\ \A pair \in Captured(c) :
                   LET buf == pair[1].Extensions
                   IN  /\ buf = Content(Input(c), pair[2])
                       /\ BalancedSeq(buf)
                       /\ Len(buf) = CloseOf(Input(c), pair[2]) - pair[2] - 1

\* a decoded point holds the three tokens of a nested element with a comment
C13_Witness ==
    /\ Accepted(1)
    /\ \E pair \in Captured(1) :
           /\ Len(pair[1].Extensions) = 3
           /\ pair[1].Extensions[2] = Comment
           /\ pair[1].Extensions[1].k = "start"

(***************************************************************************)
(* Two Decode calls whose steps interleave, on two Decoder values or on    *)
(* one.                                                                    *)
(***************************************************************************)
Bad2 ==
    GPX(Elem(S("trk"), Elem(S("trkseg"),
          Pt(<<"1">>, <<"x">>, Elem(S("ele"), <<CharData(<<"x">>)>>)))))

InitBeside ==
    /\ rev = "final"
    /\ streams = <<>>
    /\ \E t1 \in {Sample, Bad2}, t2 \in {Sample, Bad2}, strict \in BOOLEAN :
           \/ /\ decoders = <<NewDecoder(Reader(t1, FALSE), strict),
                              NewDecoder(Reader(t2, FALSE), strict)>>
              /\ calls = <<NewCall("Decode", 1),
                           [NewCall("Decode", 2) EXCEPT !.wait = FALSE]>>
           \/ /\ decoders = <<NewDecoder(Reader(t1, FALSE), strict)>>
              /\ calls = <<NewCall("Decode", 1),
                           [NewCall("Decode", 1) EXCEPT !.wait = FALSE]>>

SpecBeside == InitBeside /\ [][Next]_vars

(***************************************************************************)
(* C14.  Decode calls share no mutable state: the stream a running call    *)
(* pulls its next token from, d.ts, is the stream that call made itself;   *)
(* no other call has replaced it, on two Decoder values or on one.         *)
(***************************************************************************)
C14_OwnStream ==
    \A c \in Calls :
        calls[c].op = "Decode" /\ calls[c].status = "running" =>
            StreamOf(c) = calls[c].sid

(***************************************************************************)
(* C15.  Two Decode calls, one after the other, on two fresh Decoders of   *)
(* the same strictness over the same token sequence return equal Documents *)
(* and the same error or success.                                          *)
(***************************************************************************)
TwiceDocs ==
    RevDocs \cup Prefixes(Sample)
    \cup {d \in RootDocs : Len(d) <= 3} \cup {Bad2}

InitTwice ==
    /\ rev = "final"
    /\ streams = <<>>
    /\ \E toks \in TwiceDocs, strict \in BOOLEAN :
           decoders = <<NewDecoder(Reader(toks, FALSE), strict),
                        NewDecoder(Reader(toks, FALSE), strict)>>
    /\ calls = <<NewCall("Decode", 1), NewCall("Decode", 2)>>

SpecTwice == InitTwice /\ [][Next]_vars

InitRepeat ==
    /\ rev = "final"
    /\ decoders = <<>>
    /\ streams = <<>>
    /\ \E tokens \in Buffers, wait \in BOOLEAN :
           /\ ~wait => tokens \in NoExtension \cup RoundTrips
           /\ calls = <<[NewCall("ParseGarminTrackPointExtension", 0)
                         EXCEPT !.arg = tokens, !.buf = 1],
                       [NewCall("ParseGarminTrackPointExtension", 0)
                         EXCEPT !.arg = tokens, !.buf = 1, !.wait = wait]>>

SpecRepeat == InitRepeat /\ [][NextExt]_vars

(***************************************************************************)
(* C16.  ParseGarminTrackPointExtension leaves the buffer it is given as   *)
(* it was: at every step the array under a parse's tokener has the length  *)
(* and the elements of the buffer given; and two parses of the same        *)
(* buffer, in any order, return the same result.                           *)
(***************************************************************************)
C16_BufferUntouched ==
    \A c \in ParseCalls :
        /\ calls[c].sid # 0 => streams[calls[c].sid].toks = calls[c].arg
        /\ \A b \in ParseCalls :
               /\ Done(b) /\ Done(c)
               /\ calls[b].buf = calls[c].buf /\ calls[b].arg = calls[c].arg
               => calls[b].ext = calls[c].ext /\ calls[b].err = calls[c].err

\* two parses of one buffer have both returned heart rate 142
C16_Witness ==
    /\ Len(calls) = 2
    /\ Done(1) /\ Done(2)
    /\ calls[1].buf = calls[2].buf /\ calls[1].buf # 0
    /\ calls[1].err = NoErr /\ calls[2].err = NoErr
    /\ calls[1].ext.HeartRate = uint(142)
    /\ calls[2].ext.HeartRate = uint(142)
    /\ streams[calls[2].sid].pos > 0

(***************************************************************************)
(* C17.  When the token source has returned an error to a Decode, at       *)
(* whatever point of the document, the Decode has returned, the error it   *)
(* returned is the source's error itself, and the source was called no     *)
(* more after the failing call.                                            *)
(***************************************************************************)
C17_SourceError ==
    \A c \in Calls :
        calls[c].op = "Decode" /\ calls[c].sid # 0 /\ Stream(c).nerr > 0
        => /\ Done(c)
           /\ calls[c].err = Stream(c).srcErr
           /\ calls[c].err # NoErr
           /\ Stream(c).nerr = 1

\* the tokens delivered end inside an element called local
EndsInside(c, local) ==
    \E i \in Starts(Input(c)) :
        /\ Input(c)[i].local = local
        /\ i <= Stream(c).pos
        /\ Stream(c).pos < CloseOf(Input(c), i)

\* the reader failed inside an extensions capture, and Decode returned the
\* reader's error
C17_Witness ==
    /\ Len(calls) = 1
    /\ Done(1)
    /\ calls[1].err = ErrIO
    /\ Stream(1).srcErr = ErrIO
    /\ EndsInside(1, "extensions")

\* the same inside a leaf and inside a skipped subtree
C17_WitnessLeaf ==
    /\ Len(calls) = 1 /\ Done(1)
    /\ calls[1].err = ErrIO
    /\ EndsInside(1, "ele")
C17_WitnessSkipped ==
    /\ Len(calls) = 1 /\ Done(1)
    /\ calls[1].err \in {ErrIO, EOF}
    /\ EndsInside(1, "x")
    /\ ~EndsInside(1, "extensions")

(***************************************************************************)
(* C18.  When Decode accepts a document, Document.Version is the value of  *)
(* the root tag's version attribute as written, whatever it is, and the    *)
(* empty string when the root tag has no version attribute.                *)
(***************************************************************************)
C18_VersionVerbatim ==
    \A c \in Calls :
        Accepted(c) =>
            calls[c].doc.Version
                = LastAttr(Input(c)[FirstStart(Input(c))].attr, "version", "")

\* a document whose root says version 2, after another attribute, has been
\* accepted with Version "2"
C18_Witness ==
    /\ Accepted(1)
    /\ Len(Input(1)[FirstStart(Input(1))].attr) = 2
    /\ calls[1].doc.Version = "2"

\* a document whose root has no attribute has been accepted
C18_WitnessAbsent ==
    /\ Accepted(1)
    /\ Input(1)[FirstStart(Input(1))].attr = <<>>
    /\ calls[1].doc.Version = ""
    /\ calls[1].doc.Tracks # <<>>

(***************************************************************************)
(* C19.  skipTag, called after an element's start tag, pulls the tokens up *)
(* to and including the end tag of that element and none after it,         *)
(* whatever is nested in the element: while it runs its counter is the     *)
(* number of elements open inside the skipped one, so never negative, and  *)
(* it returns on the pull of the skipped element's own end tag, not        *)
(* earlier and not later.                                                  *)
(***************************************************************************)
Skipping(c) ==
    /\ calls[c].op = "Decode"
    /\ calls[c].status = "running"
    /\ Top(calls[c]).fn = "skipTag"

\* the start tag skipTag was called after: every caller is one element
\* deep per frame
Skipped(c) ==
    LET toks == Input(c)
        sts == {j \in Starts(toks) : /\ j <= Stream(c).pos
                                     /\ DepthAt(toks, j) = Len(calls[c].stack) - 1}
    IN  CHOOSE j \in sts : \A i \in sts : i <= j

C19_Counter ==
    \A c \in Calls :
        Skipping(c) =>
            /\ Top(calls[c]).lvl >= 0
            /\ Top(calls[c]).lvl
                   = DepthAt(Input(c), Stream(c).pos + 1) - Len(calls[c].stack)
            /\ Stream(c).pos < CloseOf(Input(c), Skipped(c))

C19_Return ==
    \A c \in Calls :
        Skipping(c) /\ calls'[c] # calls[c] /\ streams'[calls[c].sid].nerr = 0
        => /\ streams'[calls[c].sid].pos = Stream(c).pos + 1
           /\ (Len(calls'[c].stack) < Len(calls[c].stack)
               <=> Stream(c).pos + 1 = CloseOf(Input(c), Skipped(c)))
           /\ Len(calls'[c].stack) < Len(calls[c].stack)
               => /\ calls'[c].status = "running"
                  /\ Len(calls'[c].stack) = Len(calls[c].stack) - 1

C19_SkipTag == [](C19_Counter) /\ [][C19_Return]_vars

\* skipTag is two elements deep inside the element it skips
C19_WitnessDeep ==
    /\ Skipping(1)
    /\ Top(calls[1]).lvl = 2

\* a document has been accepted in which skipTag went through an element
\* holding an element that holds an element, and then through a sibling
C19_Witness ==
    /\ Accepted(1)
    /\ \E i \in ChildrenOf(Input(1), FirstStart(Input(1))) :
           /\ Input(1)[i].local \notin {"metadata", "trk"}
           /\ \E j \in ChildrenOf(Input(1), i) : ChildrenOf(Input(1), j) # {}

(***************************************************************************)
(* C20.  consumeString holds the concatenation, in order, of the text      *)
(* tokens pulled since the leaf's start tag, and it fails with its own     *)
(* error only when the token it has pulled is a start tag: a comment or a  *)
(* processing instruction inside the leaf is passed over.                  *)
(***************************************************************************)
LastStart(c) ==
    LET sts == {j \in Starts(Input(c)) : j <= Stream(c).pos}
    IN  CHOOSE j \in sts : \A i \in sts : i <= j

C20_TextUntilClose ==
    \A c \in Calls :
        /\ calls[c].op = "Decode" /\ calls[c].status = "running"
           /\ Top(calls[c]).fn = "consumeString"
           => Top(calls[c]).val
                  = TextOf(SubSeq(Input(c), LastStart(c) + 1, Stream(c).pos))
        /\ calls[c].op = "Decode" /\ Done(c)
           /\ calls[c].err = ErrUnexpectedElement
           => Input(c)[Stream(c).pos].k = "start"

(***************************************************************************)
(* A document with one element below the root in a namespace other than    *)
(* GPX 1.1, decoded beside the same document with that element under a     *)
(* name no level knows.                                                    *)
(***************************************************************************)
\* element j of toks given the name space:local
Renamed(toks, j, space, local) ==
    [i \in 1..Len(toks) |->
        IF i = j \/ i = CloseOf(toks, j)
        THEN [toks[i] EXCEPT !.space = space, !.local = local]
        ELSE toks[i]]

SpaceBases ==
    {Sample,
     GPX(Elem(S("trk"), Elem(S("trkseg"),
            Pt(<<"1">>, <<"2">>, Elem(S("time"), <<CharData(<<"4", "Z">>)>>))
            \o Pt(<<"3">>, <<"4">>, <<>>))))}

InitSpace ==
    /\ rev = "final"
    /\ \E toks \in SpaceBases, strict \in BOOLEAN :
           \E j \in Starts(toks) :
               /\ ParentAt(toks, j - 1) \in LevelsAt(toks)
               /\ toks[j].local \in Recognized(toks[ParentAt(toks, j - 1)].local)
               /\ decoders = <<NewDecoder(Reader(Renamed(toks, j, nsOther,
                                                         toks[j].local), FALSE),
                                          strict),
                               NewDecoder(Reader(Renamed(toks, j, nsOther, "x"),
                                                 FALSE), strict)>>
    /\ streams = <<>>
    /\ calls = <<NewCall("Decode", 1), NewCall("Decode", 2)>>

SpecSpace == InitSpace /\ [][Next]_vars

(***************************************************************************)
(* C21.  A child with a recognized local name in a namespace other than    *)
(* GPX 1.1 is skipped as an unrecognized element is: the document decodes  *)
(* to the same Document and error as the document in which that child has  *)
(* a name no level knows.                                                  *)
(***************************************************************************)
C21_QualifiedName ==
    /\ Len(calls) = 2
    /\ Done(1) /\ Done(2)
    /\ \E j \in Starts(Input(1)) :
           /\ Input(1)[j].space # nsGPX11
           /\ Input(2) = Renamed(Input(1), j, Input(1)[j].space, "x")
    => /\ calls[2].doc = calls[1].doc
       /\ calls[2].err = calls[1].err

(***************************************************************************)
(* C22.  A trk, trkseg or trkpt that is not at its own place (a trk child  *)
(* of the root, a trkseg child of a trk, a trkpt child of a trkseg) adds   *)
(* nothing: an accepted Document has as many tracks, segments and points   *)
(* as the input has such elements at their place; and no level ever reads  *)
(* a token from inside a misplaced element, which is skipped whole.        *)
(***************************************************************************)
Misplaced(toks) ==
    LET trks == TrkAt(toks)
        segs == Within(toks, trks, "trkseg")
        placed == trks \cup segs \cup Within(toks, segs, "trkpt")
    IN  {j \in Starts(toks) :
            toks[j].local \in {"trk", "trkseg", "trkpt"} /\ j \notin placed}

\* the elements of a set that are open after token pos
OpenIn(toks, set, pos) ==
    {j \in set : j <= pos /\ pos < CloseOf(toks, j)}

DocSegments(doc) == Flat([t \in 1..Len(doc.Tracks) |-> doc.Tracks[t].Segments])

\* the structure documents, every nesting of trk, trkseg, trkpt and an
\* unknown element among them, and the sample document
InitStruct ==
    /\ rev = "final"
    /\ \E toks \in StructDocs \cup {Sample}, strict \in BOOLEAN :
           decoders = <<NewDecoder(Reader(toks, FALSE), strict)>>
    /\ streams = <<>>
    /\ calls = <<NewCall("Decode", 1)>>

SpecStruct == InitStruct /\ [][Next]_vars

LevelFns ==
    {"consumeGPX", "consumeMetadata", "consumeTrack", "consumeSegment",
     "consumePoint"}

C22_OwnPosition ==
    \A c \in Calls :
        calls[c].op = "Decode" =>
            /\ Accepted(c) =>
                   LET trks == TrkAt(Input(c))
                       segs == Within(Input(c), trks, "trkseg")
                   IN  /\ Len(calls[c].doc.Tracks) = Cardinality(trks)
                       /\ Len(DocSegments(calls[c].doc)) = Cardinality(segs)
                       /\ Len(DocPoints(calls[c].doc))
                              = Cardinality(Within(Input(c), segs, "trkpt"))
            /\ calls[c].status = "running" /\ Top(calls[c]).fn \in LevelFns
               => OpenIn(Input(c), Misplaced(Input(c)), Stream(c).pos) = {}

\* a document with a track has been accepted which holds a misplaced
\* element with an element inside
C22_Witness ==
    /\ Accepted(1)
    /\ Len(calls[1].doc.Tracks) = 1
    /\ \E j \in Misplaced(Input(1)) :
           \E k \in ChildrenOf(Input(1), j) : Input(1)[k].local = "trkpt"

(***************************************************************************)
(* C23.  When Decode returns successfully, no token of the input is left   *)
(* unread: the source has delivered its last token.                        *)
(***************************************************************************)
C23_FullyConsumed ==
    \A c \in Calls :
        calls[c].op = "Decode" /\ Accepted(c) => Stream(c).pos = Len(Input(c))

(***************************************************************************)
(* C23, amended.  When Decode returns successfully, the source has         *)
(* delivered the tokens up to and including the root's end tag and none    *)
(* after it, and has returned no error.                                    *)
(***************************************************************************)
C23_ConsumedToRootEnd ==
    \A c \in Calls :
        calls[c].op = "Decode" /\ Accepted(c) =>
            /\ Stream(c).pos = CloseOf(Input(c), FirstStart(Input(c)))
            /\ Stream(c).pos <= Len(Input(c))
            /\ Stream(c).nerr = 0

\* a document with a track, followed by a second gpx element, has been
\* accepted; the second element is unread
C23_Witness ==
    /\ Accepted(1)
    /\ Len(calls[1].doc.Tracks) = 1
    /\ Stream(1).pos < Len(Input(1))
    /\ Input(1)[Stream(1).pos + 1].k = "start"

(***************************************************************************)
(* C24.  A sliceTokener called after the last token of its buffer, or on   *)
(* an empty buffer, returns the end-of-input error: it never indexes       *)
(* outside the slice, so no parse over a buffer ends in a panic, and the   *)
(* tokens it delivers are the buffer's.                                    *)
(***************************************************************************)
C24_SliceEndOfInput ==
    \A c \in ParseCalls :
        /\ calls[c].err # Panic
        /\ calls[c].sid # 0 =>
               /\ Stream(c).pos <= Len(Stream(c).toks)
               /\ Stream(c).toks = calls[c].arg

(***************************************************************************)
(* An extension parsed without and with one unrecognized child put between *)
(* its children.                                                           *)
(***************************************************************************)
SkipFields ==
    {Field("hr", <<"1", "4", "2">>), Field("cad", <<"9", "0">>),
     Field("atemp", <<"7">>),
     Elem(G("depth"), <<CharData(<<"2">>), CharData(<<"5">>)>>),
     Elem(G("wtemp"), <<CharData(<<"9">>)>> \o Elem(G("x"), <<>>))}

\* unrecognized children: known local names outside the Garmin namespace,
\* with text and with a subtree, and unknown names holding known fields
SkipElems ==
    {Elem(S("hr"), <<CharData(<<"6">>)>>),
     Elem(StartElement(nsOther, "cad", <<>>), <<CharData(<<"6">>)>>),
     Elem(StartElement(nsOther, "atemp", <<>>),
          Field("atemp", <<"3">>) \o Elem(S("x"), <<>>)),
     Elem(G("x"), Field("hr", <<"5">>)),
     Elem(G("x"), Elem(G("x"), Field("depth", <<"5">>)) \o <<Comment>>)}

InitSkip ==
    /\ rev = "final"
    /\ decoders = <<>>
    /\ streams = <<>>
    /\ \E a \in UpTo(SkipFields, MaxFields - 1),
          b \in UpTo(SkipFields, MaxFields - 1), u \in SkipElems :
           calls = <<[NewCall("ParseGarminTrackPointExtension", 0)
                         EXCEPT !.arg = Envelope(a \o b)],
                     [NewCall("ParseGarminTrackPointExtension", 0)
                         EXCEPT !.arg = Envelope(a \o u \o b)]>>

SpecSkip == InitSkip /\ [][NextExt]_vars

(***************************************************************************)
(* C25.  An unrecognized child of the extension element (a name that is    *)
(* no field, or a field's name outside the Garmin namespace) is skipped    *)
(* with all it holds: the parse of the extension with such a child         *)
(* returns the extension and the error of the parse without it, whatever   *)
(* fields come before and after the child.                                 *)
(***************************************************************************)
\* the unrecognized children of the envelope of toks
UnknownAt(toks, e) == ChildrenOf(toks, e) \ KnownAt(toks, e)

\* toks without element j
Without(toks, j) ==
    SubSeq(toks, 1, j - 1) \o SubSeq(toks, CloseOf(toks, j) + 1, Len(toks))

C25_UnknownChildSkipped ==
    /\ Len(calls) = 2
    /\ Done(1) /\ Done(2)
    /\ calls[1].op = "ParseGarminTrackPointExtension"
    /\ calls[2].op = "ParseGarminTrackPointExtension"
    /\ \E j \in UnknownAt(calls[2].arg, EnvelopeAt(calls[2].arg)) :
           calls[1].arg = Without(calls[2].arg, j)
    => /\ calls[2].ext = calls[1].ext
       /\ calls[2].err = calls[1].err

\* an hr element outside the Garmin namespace stands between the Garmin hr
\* and cad elements; both parses have returned heart rate 142, cadence 90
C25_Witness ==
    /\ Len(calls) = 2
    /\ Done(1) /\ Done(2)
    /\ calls[2].err = NoErr
    /\ calls[2].ext.HeartRate = uint(142)
    /\ calls[2].ext.Cadence = uint(90)
    /\ Len(calls[2].arg) = 11
    /\ calls[2].arg[5] = S("hr")
    /\ calls[2].arg[8] = G("cad")

(***************************************************************************)
(* Decode run to its end: the program goes on as long as a step is         *)
(* possible.  The inputs are finite token sequences, whole and cut off at  *)
(* any token, from a reader that fails only with the end of input.         *)
(***************************************************************************)
InitFair ==
    /\ rev = "final"
    /\ \E toks \in Prefixes(Sample) \cup RootDocs \cup RevDocs,
          strict \in BOOLEAN :
           decoders = <<NewDecoder(Reader(toks, FALSE), strict)>>
    /\ streams = <<>>
    /\ calls = <<NewCall("Decode", 1)>>

SpecFair == InitFair /\ [][Next]_vars /\ WF_vars(Next)

(***************************************************************************)
(* C26.  Decode terminates on every finite input, strict or not: every     *)
(* step of a running Decode is one call of the source that delivers the    *)
(* next token or the error that ends the call, and in the end the call     *)
(* has returned.                                                           *)
(***************************************************************************)
OnePull ==
    \A c \in Calls :
        calls[c].status = "running" /\ calls'[c] # calls[c] =>
            \/ /\ streams'[calls[c].sid].pos = Stream(c).pos + 1
               /\ streams'[calls[c].sid].nerr = Stream(c).nerr
            \/ /\ streams'[calls[c].sid].pos = Stream(c).pos
               /\ streams'[calls[c].sid].nerr = Stream(c).nerr + 1
               /\ calls'[c].status = "done"

C26_Terminates == <>(\A c \in Calls : Done(c)) /\ [][OnePull]_vars

\* a Decode has ended with the end of input inside the extensions of the
\* sample document cut off there
C26_Witness ==
    /\ Done(1)
    /\ calls[1].err = EOF
    /\ Stream(1).pos = Len(Input(1))
    /\ EndsInside(1, "extensions")

(***************************************************************************)
(* One document decoded by the final revision and then by the earlier one: *)
(* between the two decodes the program is the earlier revision's.          *)
(***************************************************************************)
InitBoth ==
    /\ rev = "final"
    /\ \E toks \in RevDocs, strict \in BOOLEAN :
           decoders = <<NewDecoder(Reader(toks, FALSE), strict),
                        NewDecoder(Reader(toks, FALSE), strict)>>
    /\ streams = <<>>
    /\ calls = <<NewCall("Decode", 1), NewCall("Decode", 2)>>

\* the Decoder of the earlier revision takes over once the first decode
\* has returned and before the second is made
EarlierRevision ==
    /\ rev = "final"
    /\ Len(calls) = 2
    /\ calls[1].status = "done"
    /\ calls[2].status = "idle"
    /\ rev' = "earlier"
    /\ UNCHANGED <<decoders, streams, calls>>

NextBoth == NextRev \/ EarlierRevision

SpecBoth == InitBoth /\ [][NextBoth]_vars

\* call 1 was decoded by the final revision and call 2 by the earlier one,
\* both strict, from the same tokens
BothStrict ==
    /\ Len(calls) = 2
    /\ Done(1) /\ Done(2)
    /\ rev = "earlier"
    /\ Strict(1) /\ Strict(2)
    /\ Input(1) = Input(2)

(***************************************************************************)
(* C27.  With Strict set, the final revision and the earlier revision      *)
(* return the same Document and both succeed or both fail, on every        *)
(* document, whatever the number of text tokens in its ele and time        *)
(* leaves.                                                                 *)
(***************************************************************************)
C27_SameOutcome ==
    BothStrict =>
        /\ calls[1].doc = calls[2].doc
        /\ (calls[1].err = NoErr) <=> (calls[2].err = NoErr)

(***************************************************************************)
(* C27, amended.  The same, for the documents in which every ele and time  *)
(* leaf holds exactly one token, a text, or holds a start tag.             *)
(***************************************************************************)
LeavesAt(toks) == EleAt(toks) \cup TimeAt(toks)

OneText(toks, i) == Len(Content(toks, i)) = 1 /\ Plain(toks, i)

C27_SameOutcomeOneText ==
    /\ BothStrict
    /\ \A i \in LeavesAt(Input(1)) :
           OneText(Input(1), i) \/ StartsIn(Input(1), i) # {}
    => /\ calls[1].doc = calls[2].doc
       /\ (calls[1].err = NoErr) <=> (calls[2].err = NoErr)

\* both revisions have decoded a point with an elevation of 7 read from
\* one text token
C27_Witness ==
    /\ BothStrict
    /\ Accepted(1) /\ Accepted(2)
    /\ \E i \in EleAt(Input(1)) : OneText(Input(1), i)
    /\ calls[2].doc.Tracks[1].Segments[1].Points[1].Elevation = 7

(***************************************************************************)
(* Points with up to MaxNodes children, any of them repeated, and roots    *)
(* with two metadata children.                                             *)
(***************************************************************************)
LastKids ==
    {Elem(S("ele"), <<CharData(<<"3">>)>>), Elem(S("ele"), <<CharData(<<"7">>)>>),
     Elem(S("time"), <<CharData(<<"4", "Z">>)>>),
     Elem(S("time"), <<CharData(<<"5", "Z">>)>>),
     Elem(S("extensions"), Elem(S("x"), <<>>)),
     Elem(S("extensions"), <<CharData(<<"x">>)>>),
     Elem(S("x"), Elem(S("ele"), <<CharData(<<"9">>)>>))}

LastMetadata ==
    {Elem(S("metadata"), <<>>),
     Elem(S("metadata"), Elem(S("time"), <<CharData(<<"4", "Z">>)>>)),
     Elem(S("metadata"), Elem(S("time"), <<CharData(<<"5", "Z">>)>>)
                         \o Elem(S("time"), <<CharData(<<"6", "Z">>)>>))}

LastDocs ==
    {GPX(Elem(S("trk"), Elem(S("trkseg"), Pt(<<"1">>, <<"2">>, b)))) :
        b \in UpTo(LastKids, MaxNodes)}
    \cup {GPX(m1 \o m2 \o Track1) : m1 \in LastMetadata, m2 \in LastMetadata}

InitLast ==
    /\ rev = "final"
    /\ \E toks \in LastDocs, strict \in BOOLEAN :
           decoders = <<NewDecoder(Reader(toks, FALSE), strict)>>
    /\ streams = <<>>
    /\ calls = <<NewCall("Decode", 1)>>

SpecLast == InitLast /\ [][Next]_vars

(***************************************************************************)
(* C28.  Of several ele, time or extensions children of a trkpt the last   *)
(* one alone gives the point's field, and of several metadata children of  *)
(* the root the last one alone gives Document.Metadata: nothing of an      *)
(* earlier one is kept, so a time given only in an earlier metadata is     *)
(* lost.                                                                   *)
(***************************************************************************)
C28_LastWins ==
    \A c \in Calls :
        calls[c].op = "Decode" /\ Accepted(c) =>
            LET toks == Input(c)
                src == Sorted(TrkptAt(toks))
                pts == DocPoints(calls[c].doc)
            IN  /\ calls[c].doc.Metadata = MetadataOf(toks)
                /\ Len(pts) = Len(src)
                /\ \A k \in 1..Len(src) :
                       /\ pts[k].Elevation = EleOf(toks, src[k])
                       /\ pts[k].Time = TimeOf(toks, src[k])
                       /\ pts[k].Extensions = ExtensionsOf(toks, src[k])

\* a point with an elevation of 7 and two extensions children, the second
\* holding a text, has been decoded to elevation 7 and that text
C28_Witness ==
    /\ Accepted(1)
    /\ Len(DocPoints(calls[1].doc)) = 1
    /\ DocPoints(calls[1].doc)[1].Elevation = 7
    /\ DocPoints(calls[1].doc)[1].Extensions = <<CharData(<<"x">>)>>
    /\ \E p \in TrkptAt(Input(1)) :
           /\ Len(Named(Input(1), p, "extensions")) = 2
           /\ Len(Named(Input(1), p, "ele")) = 1

\* a root with a metadata holding a time and then an empty metadata has
\* been decoded to the zero time
C28_WitnessMetadata ==
    /\ Accepted(1)
    /\ calls[1].doc.Metadata = ZeroMetadata
    /\ Len(Named(Input(1), FirstStart(Input(1)), "metadata")) = 2
    /\ TimeAt(Input(1)) # {}

(***************************************************************************)
(* C29.  HeartRate and Cadence are, whatever the hr and cad texts, 0 or    *)
(* the non-negative integer a text denotes: the text of a negative integer *)
(* never gives a field other than 0, the conversion to uint wrapping no    *)
(* value around.                                                           *)
(***************************************************************************)
\* v is 0 or the number of an element of the field that denotes a
\* non-negative integer
DenotedOrZero(toks, name, v) ==
    \/ v = uint(0)
    \/ /\ EnvelopeAt(toks) # 0
       /\ \E j \in KnownAt(toks, EnvelopeAt(toks)) :
              /\ toks[j].local = name
              /\ Atoi(FieldText(toks, j)).ok
              /\ Atoi(FieldText(toks, j)).val >= 0
              /\ v = uint(Atoi(FieldText(toks, j)).val)

C29_NoWrapAround ==
    \A c \in ParseCalls :
        Done(c) =>
            /\ DenotedOrZero(calls[c].arg, "hr", calls[c].ext.HeartRate)
            /\ DenotedOrZero(calls[c].arg, "cad", calls[c].ext.Cadence)

====
